---- MODULE Spec2Model ----
(***************************************************************************)
(* Taskify: the review-gated issue workflow (lib/api/issues.ts), the       *)
(* review decision route, the issue POST, PATCH and DELETE routes, project *)
(* duplication, concurrent issue creation and update, the closure summary *)
(* and the paginated activity log, over one team's persistent store.       *)
(*                                                                         *)
(* Encoding of JavaScript values:                                          *)
(*   - a string-valued column holding null is the string Null;             *)
(*   - a DateTime column holding null is NoTime (0); the clock starts at 1;*)
(*   - an optional request field is <<>> when undefined and <<v>> when     *)
(*     it carries the value v (v may be Null);                             *)
(*   - a free-text reason is a sequence of characters.                     *)
(***************************************************************************)
EXTENDS Integers, Sequences, FiniteSets, TLC

VARIABLES
    issues,      \* the Issue table: issue id -> row (ids are allocated 1, 2, ...)
    activities,  \* the IssueActivity table, in insertion order
    projects,    \* the Project table (ids)
    now,         \* the clock read by new Date()
    last,        \* the request being answered and its response
    allocated,   \* the issue numbers handed out so far, in order of allocation
    inflight     \* the calls that overlap with others: call -> its state

vars == <<issues, activities, projects, now, last, allocated, inflight>>

----------------------------------------------------------------------------
(* Bounds of the model *)

MaxIssues == 2
MaxTime == 3

----------------------------------------------------------------------------
(* Values *)

Null == "null"
NoTime == 0
NoIssue == 0
NoEstimate == 0
Undefined == <<>>
Some(v) == <<v>>
Has(opt) == opt # <<>>
Val(opt) == opt[1]

RangeOf(s) == {s[k] : k \in 1..Len(s)}

\* JavaScript truthiness of a string-or-null value
Truthy(v) == v # Null /\ v # ""

----------------------------------------------------------------------------
(* Team members, workflow states, projects and labels of the team *)

Users == {"o", "a", "d1", "d2", "x"}

\* teamMember.role; "none" is a user with no TeamMember row
roleOf(u) ==
    CASE u = "o" -> "owner"
      [] u = "a" -> "admin"
      [] u = "d1" -> "developer"
      [] u = "d2" -> "developer"
      [] OTHER -> "none"

isMember(u) == roleOf(u) # "none"

\* teamMember.userName / user.name: the display name of a user id
userNameOf(u) ==
    CASE u = "o" -> "Olga"
      [] u = "a" -> "Adam"
      [] u = "d1" -> "Dora"
      [] u = "d2" -> "Dave"
      [] OTHER -> "Xeno"

\* The WorkflowState table of the team, in the order findMany returns it
WorkflowStates == <<
    [id |-> "ws_backlog", name |-> "Backlog", type |-> "backlog"],
    [id |-> "ws_todo", name |-> "Todo", type |-> "unstarted"],
    [id |-> "ws_progress", name |-> "In Progress", type |-> "started"],
    [id |-> "ws_review", name |-> "Review", type |-> "review"],
    [id |-> "ws_done", name |-> "Done", type |-> "completed"],
    [id |-> "ws_canceled", name |-> "Canceled", type |-> "canceled"] >>

StageIds == {WorkflowStates[k].id : k \in 1..Len(WorkflowStates)}

stateOf(id) == CHOOSE s \in RangeOf(WorkflowStates) : s.id = id
typeOf(id) == stateOf(id).type
nameOf(id) == stateOf(id).name

\* workflowStates.find(s => s.type === t): the first state of that type, or Null
findStateOfType(t) ==
    LET idx == {k \in 1..Len(WorkflowStates) : WorkflowStates[k].type = t}
    IN IF idx = {} THEN Null
       ELSE WorkflowStates[CHOOSE k \in idx : \A j \in idx : k <= j].id

\* Labels are project-specific: label -> owning project
LabelProject == [l \in {"l1", "l2"} |-> IF l = "l1" THEN "p1" ELSE "p2"]
LabelIds == DOMAIN LabelProject

\* db.teamMember.findMany({ where: { userId: { in: ids } } }): rows come back in
\* table order, not in the order of ids; users without a row are dropped
MemberOrder == <<"o", "a", "d1", "d2">>

findMembers(ids) == SelectSeq(MemberOrder, LAMBDA u : u \in RangeOf(ids))

\* Calendar: a DateTime is a number of half-days; day d starts at 2*d.
\* new Date("YYYY-MM-DD") and toISOString().slice(0, 10)
DayNames == <<"2025-01-09", "2025-01-10", "2025-01-11", "2025-01-12">>

parseDate(str) ==
    LET idx == {k \in 1..Len(DayNames) : DayNames[k] = str}
    IN (CHOOSE k \in idx : TRUE) * 2

isoDate(t) == IF t = NoTime THEN Null ELSE DayNames[t \div 2]

----------------------------------------------------------------------------
(* Requests *)

\* UpdateIssueData / CreateIssueData with every field undefined
NoData == [title |-> Undefined, description |-> Undefined, projectId |-> Undefined,
           workflowStateId |-> Undefined, assigneeIds |-> Undefined,
           assigneeId |-> Undefined, assignee |-> Undefined, priority |-> Undefined,
           estimate |-> Undefined, labelIds |-> Undefined, number |-> Undefined,
           dueDate |-> Undefined, difficulty |-> Undefined, parentId |-> Undefined,
           reviewerId |-> Undefined, reviewer |-> Undefined]

DataFields == DOMAIN NoData

\* a value that is defined and truthy in JavaScript (string-valued fields)
Given(opt) == Has(opt) /\ Truthy(Val(opt))

----------------------------------------------------------------------------
(* The store *)

IssueIds == 1..MaxIssues

maxNumber(iss) ==
    IF DOMAIN iss = {} THEN 0
    ELSE CHOOSE n \in {iss[i].number : i \in DOMAIN iss} :
             \A i \in DOMAIN iss : iss[i].number <= n

\* the id the store gives to the next inserted issue: ids are opaque, the model takes
\* the first one that no row of the table holds
newId(iss) ==
    CHOOSE id \in 1..(Cardinality(DOMAIN iss) + 1) :
        /\ id \notin DOMAIN iss
        /\ \A j \in 1..(id - 1) : j \in DOMAIN iss

\* the numbers a write gave out (a number of a new row, or a changed number), ascending
RECURSIVE ascending(_)
ascending(S) ==
    IF S = {} THEN <<>>
    ELSE LET m == CHOOSE n \in S : \A k \in S : n <= k
         IN <<m>> \o ascending(S \ {m})

newNumbers(old, new) ==
    ascending({new[i].number : i \in {j \in DOMAIN new :
                   j \notin DOMAIN old \/ old[j].number # new[j].number}})

Activity(issueId, userId, action, field, oldValue, newValue, meta) ==
    [issueId |-> issueId, userId |-> userId, userName |-> userNameOf(userId),
     action |-> action, field |-> field, oldValue |-> oldValue,
     newValue |-> newValue, metadata |-> meta]

\* metadata objects, over one set of keys (Undefined where the key is absent)
NoMeta == [oldStatusId |-> Undefined, newStatusId |-> Undefined,
           reviewerId |-> Undefined, reviewerName |-> Undefined,
           newReviewerId |-> Undefined, reason |-> Undefined,
           approvedBy |-> Undefined, title |-> Undefined]

Fail(err, iss, acts) == [ok |-> FALSE, error |-> err, issues |-> iss, activities |-> acts]
Done(iss, acts) == [ok |-> TRUE, error |-> Null, issues |-> iss, activities |-> acts]

----------------------------------------------------------------------------
(* createIssue *)

createIssue(iss, acts, projs, data, creatorId, t) ==
    LET parentId == IF Has(data.parentId) THEN Val(data.parentId) ELSE NoIssue
        hasParent == parentId # NoIssue
        parentFound == hasParent /\ parentId \in DOMAIN iss
        inheritedLabelIds == IF parentFound THEN iss[parentId].labels ELSE {}
        effectiveProjectId ==
            IF Given(data.projectId) THEN Val(data.projectId)
            ELSE IF parentFound /\ iss[parentId].projectId # Null
                 THEN iss[parentId].projectId
                 ELSE Null
        project == IF effectiveProjectId # Null /\ effectiveProjectId \in projs
                   THEN effectiveProjectId ELSE Null
        finalLabelIds ==
            inheritedLabelIds \cup
                (IF Has(data.labelIds) THEN RangeOf(Val(data.labelIds)) ELSE {})
        validLabels == {l \in finalLabelIds :
                            l \in LabelIds /\ LabelProject[l] = effectiveProjectId
                            /\ LabelProject[l] \in projs}
        assigneeIds == IF Has(data.assigneeIds) THEN Val(data.assigneeIds) ELSE <<>>
        assigneeRecords == findMembers(assigneeIds)
        id == newId(iss)
        row == [id |-> id,
                number |-> maxNumber(iss) + 1,
                title |-> Val(data.title),
                description |-> IF Has(data.description) THEN Val(data.description) ELSE Null,
                workflowStateId |-> Val(data.workflowStateId),
                assigneeId |-> IF Len(assigneeIds) > 0 THEN assigneeIds[1]
                               ELSE IF Given(data.assigneeId) THEN Val(data.assigneeId)
                               ELSE Null,
                assignee |-> IF Len(assigneeRecords) > 0 THEN userNameOf(assigneeRecords[1])
                             ELSE IF Given(data.assignee) THEN Val(data.assignee)
                             ELSE Null,
                assignees |-> assigneeRecords,
                priority |-> IF Given(data.priority) THEN Val(data.priority) ELSE "none",
                dueDate |-> IF Given(data.dueDate) THEN parseDate(Val(data.dueDate)) ELSE NoTime,
                difficulty |-> IF Has(data.difficulty) THEN Val(data.difficulty) ELSE Null,
                estimate |-> IF Has(data.estimate) THEN Val(data.estimate) ELSE NoEstimate,
                creatorId |-> creatorId,
                projectId |-> project,
                parentId |-> parentId,
                labels |-> finalLabelIds,
                reviewerId |-> Null,
                reviewer |-> Null,
                reviewedAt |-> NoTime,
                completedAt |-> NoTime,
                updatedAt |-> t]
    IN IF hasParent /\ ~parentFound
         THEN Fail("Parent issue not found", iss, acts)
       ELSE IF finalLabelIds # {} /\ effectiveProjectId # Null /\ validLabels # finalLabelIds
         THEN Fail("One or more labels do not belong to the specified project", iss, acts)
       ELSE IF finalLabelIds # {} /\ effectiveProjectId = Null
         THEN Fail("Labels can only be assigned to issues that belong to a project", iss, acts)
       ELSE Done((id :> row) @@ iss,
                 Append(acts, Activity(id, creatorId, "created", Null, Null, Null,
                                       [NoMeta EXCEPT !.title = Some(row.title)])))

----------------------------------------------------------------------------
(* updateIssue *)

\* a.map(x => x.userName).join(', ')
RECURSIVE joinNames(_)
joinNames(ids) ==
    IF Len(ids) = 0 THEN ""
    ELSE IF Len(ids) = 1 THEN userNameOf(ids[1])
    ELSE userNameOf(ids[1]) \o ", " \o joinNames(Tail(ids))

LockError == "This issue is locked for review. Only the reviewer can perform review actions."

\* the review lock: the fields of the request that are neither undefined nor allowed
allowedFields == {"workflowStateId", "reviewerId", "reviewer"}

\* variant: the lock also lets an assignee change through
disallowedFieldsLoose(data) ==
    {f \in DataFields : Has(data[f]) /\ f \notin allowedFields \cup {"assigneeIds"}}

disallowedFields(data) == {f \in DataFields : Has(data[f]) /\ f \notin allowedFields}

\* the while loop over the proposed parent's ancestors: TRUE when it throws
RECURSIVE ancestorCycle(_, _, _)
ancestorCycle(iss, currentParentId, visited) ==
    IF currentParentId = NoIssue THEN FALSE
    ELSE IF currentParentId \in visited THEN TRUE
    ELSE ancestorCycle(iss,
                       IF currentParentId \in DOMAIN iss
                       THEN iss[currentParentId].parentId ELSE NoIssue,
                       visited \cup {currentParentId})

RECURSIVE checkDescendants(_, _, _)
checkDescendants(iss, id, target) ==
    \E child \in {c \in DOMAIN iss : iss[c].parentId = id} :
        child = target \/ checkDescendants(iss, child, target)

\* variant: the parentId block without the test that the parent is the issue itself
parentErrorNoSelfTest(iss, issueId, data) ==
    IF ~Has(data.parentId) \/ Val(data.parentId) = NoIssue THEN Null
    ELSE LET p == Val(data.parentId)
         IN IF p \notin DOMAIN iss THEN "Parent issue not found"
            ELSE IF ancestorCycle(iss, iss[p].parentId, {issueId})
              THEN "Circular reference detected: cannot set parent"
            ELSE IF checkDescendants(iss, issueId, p)
              THEN "Circular reference detected: parent issue is a descendant of this issue"
            ELSE Null

\* the error thrown by the parentId block, or Null
parentError(iss, issueId, data) ==
    IF ~Has(data.parentId) \/ Val(data.parentId) = NoIssue THEN Null
    ELSE LET p == Val(data.parentId)
         IN IF p \notin DOMAIN iss THEN "Parent issue not found"
            ELSE IF p = issueId THEN "An issue cannot be its own parent"
            ELSE IF ancestorCycle(iss, iss[p].parentId, {issueId})
              THEN "Circular reference detected: cannot set parent"
            ELSE IF checkDescendants(iss, issueId, p)
              THEN "Circular reference detected: parent issue is a descendant of this issue"
            ELSE Null

\* the issue row re-read inside the workflowStateId block: select { workflowStateId }
\* only, so its assignees are undefined and the list defaults to []
reviewBlockAssigneeIds(row) == <<>>

\* variant: the workflowStateId block without the hard rule on completed stages
workflowErrorNoGate(row, data) ==
    IF ~Has(data.workflowStateId) THEN Null
    ELSE LET curType == typeOf(row.workflowStateId)
             newType == typeOf(Val(data.workflowStateId))
         IN IF newType = "review" /\ curType # "review"
              THEN IF Given(data.reviewerId)
                   THEN IF Val(data.reviewerId) \in RangeOf(reviewBlockAssigneeIds(row))
                          THEN "Reviewer cannot be one of the assignees. Please select a different reviewer."
                        ELSE IF ~isMember(Val(data.reviewerId))
                          THEN "Selected reviewer is not a member of this team."
                        ELSE Null
                   ELSE "Please select a reviewer before moving to Review stage."
            ELSE Null

\* the error thrown by the workflowStateId block, or Null
workflowError(row, data) ==
    IF ~Has(data.workflowStateId) THEN Null
    ELSE LET curType == typeOf(row.workflowStateId)
             newType == typeOf(Val(data.workflowStateId))
         IN IF newType = "completed" /\ curType # "review"
              THEN "Cannot move to Done from any stage except Review. Please move the issue to Review first."
            ELSE IF newType = "review" /\ curType # "review"
              THEN IF Given(data.reviewerId)
                   THEN IF Val(data.reviewerId) \in RangeOf(reviewBlockAssigneeIds(row))
                          THEN "Reviewer cannot be one of the assignees. Please select a different reviewer."
                        ELSE IF ~isMember(Val(data.reviewerId))
                          THEN "Selected reviewer is not a member of this team."
                        ELSE Null
                   ELSE "Please select a reviewer before moving to Review stage."
            ELSE Null

\* variant: entering Review leaves reviewedAt as it was
applyWorkflowStale(row, data, t) ==
    IF ~Has(data.workflowStateId) THEN row
    ELSE LET curType == typeOf(row.workflowStateId)
             newType == typeOf(Val(data.workflowStateId))
             entering == newType = "review" /\ curType # "review"
             leaving == newType # "review" /\ curType = "review"
         IN [row EXCEPT
               !.reviewerId = IF entering THEN Val(data.reviewerId)
                              ELSE IF leaving THEN Null ELSE @,
               !.reviewer = IF entering
                            THEN (IF Given(data.reviewer) THEN Val(data.reviewer)
                                  ELSE userNameOf(Val(data.reviewerId)))
                            ELSE IF leaving THEN Null ELSE @,
               !.completedAt = IF newType = "completed" THEN t ELSE NoTime,
               !.workflowStateId = Val(data.workflowStateId)]

\* variant: leaving Review clears reviewedAt
applyWorkflowClearing(row, data, t) ==
    IF ~Has(data.workflowStateId) THEN row
    ELSE LET curType == typeOf(row.workflowStateId)
             newType == typeOf(Val(data.workflowStateId))
             entering == newType = "review" /\ curType # "review"
             leaving == newType # "review" /\ curType = "review"
         IN [row EXCEPT
               !.reviewedAt = IF entering THEN t ELSE IF leaving THEN NoTime ELSE @,
               !.reviewerId = IF entering THEN Val(data.reviewerId)
                              ELSE IF leaving THEN Null ELSE @,
               !.reviewer = IF entering
                            THEN (IF Given(data.reviewer) THEN Val(data.reviewer)
                                  ELSE userNameOf(Val(data.reviewerId)))
                            ELSE IF leaving THEN Null ELSE @,
               !.completedAt = IF newType = "completed" THEN t ELSE NoTime,
               !.workflowStateId = Val(data.workflowStateId)]

\* updateData of the workflowStateId block, applied to the row
applyWorkflow(row, data, t) ==
    IF ~Has(data.workflowStateId) THEN row
    ELSE LET curType == typeOf(row.workflowStateId)
             newType == typeOf(Val(data.workflowStateId))
             entering == newType = "review" /\ curType # "review"
             leaving == newType # "review" /\ curType = "review"
         IN [row EXCEPT
               !.reviewedAt = IF entering THEN t ELSE @,
               !.reviewerId = IF entering THEN Val(data.reviewerId)
                              ELSE IF leaving THEN Null ELSE @,
               !.reviewer = IF entering
                            THEN (IF Given(data.reviewer) THEN Val(data.reviewer)
                                  ELSE userNameOf(Val(data.reviewerId)))
                            ELSE IF leaving THEN Null ELSE @,
               !.completedAt = IF newType = "completed" THEN t ELSE NoTime,
               !.workflowStateId = Val(data.workflowStateId)]

\* the labelIds block: the error it throws, or Null
labelError(row, projs, data) ==
    IF ~Has(data.labelIds) \/ Len(Val(data.labelIds)) = 0 THEN Null
    ELSE LET targetProjectId == IF Has(data.projectId) THEN Val(data.projectId)
                                ELSE row.projectId
             validLabels == {l \in RangeOf(Val(data.labelIds)) :
                                l \in LabelIds /\ LabelProject[l] = targetProjectId
                                /\ LabelProject[l] \in projs}
         IN IF ~Truthy(targetProjectId)
              THEN "Labels can only be assigned to issues that belong to a project"
            ELSE IF Cardinality(validLabels) # Len(Val(data.labelIds))
              THEN "One or more labels do not belong to the specified project"
            ELSE Null

\* issueLabel.deleteMany + createMany
writeLabels(row, data) ==
    IF Has(data.labelIds) THEN [row EXCEPT !.labels = RangeOf(Val(data.labelIds))] ELSE row

\* issueAssignee.deleteMany + createMany
writeAssignees(row, data) ==
    IF Has(data.assigneeIds)
    THEN [row EXCEPT !.assignees = findMembers(Val(data.assigneeIds))]
    ELSE row

\* data after the project and assignee blocks have filled in number, assigneeId, assignee
normalizeData(iss, row, data) ==
    LET d1 == IF Has(data.projectId) /\ Val(data.projectId) # row.projectId
              THEN [data EXCEPT !.number = Some(maxNumber(iss) + 1)]
              ELSE data
        members == IF Has(data.assigneeIds) THEN findMembers(Val(data.assigneeIds)) ELSE <<>>
    IN IF ~Has(data.assigneeIds) THEN d1
       ELSE IF Len(members) > 0
         THEN [d1 EXCEPT !.assigneeId = Some(members[1]),
                         !.assignee = Some(userNameOf(members[1]))]
       ELSE [d1 EXCEPT !.assigneeId = Some(Null), !.assignee = Some(Null)]

\* db.issue.update({ data: updateData }) for the columns outside the workflow block
applyFields(row, data, t) ==
    [row EXCEPT
       !.parentId = IF Has(data.parentId) THEN Val(data.parentId) ELSE @,
       !.title = IF Has(data.title) THEN Val(data.title) ELSE @,
       !.description = IF Has(data.description) THEN Val(data.description) ELSE @,
       !.projectId = IF Has(data.projectId) THEN Val(data.projectId) ELSE @,
       !.assigneeId = IF Has(data.assigneeId) THEN Val(data.assigneeId) ELSE @,
       !.assignee = IF Has(data.assignee) THEN Val(data.assignee) ELSE @,
       !.priority = IF Has(data.priority) THEN Val(data.priority) ELSE @,
       !.dueDate = IF Has(data.dueDate)
                   THEN (IF Truthy(Val(data.dueDate)) THEN parseDate(Val(data.dueDate))
                         ELSE NoTime)
                   ELSE @,
       !.difficulty = IF Has(data.difficulty) THEN Val(data.difficulty) ELSE @,
       !.estimate = IF Has(data.estimate) THEN Val(data.estimate) ELSE @,
       !.number = IF Has(data.number) THEN Val(data.number) ELSE @,
       !.updatedAt = t]

\* the activities updateIssue records, in the order it pushes them
updateActivities(old, new, issueId, data, userId) ==
    LET oldType == typeOf(old.workflowStateId)
        newType == typeOf(new.workflowStateId)
        statusChanged == Given(data.workflowStateId)
                         /\ Val(data.workflowStateId) # old.workflowStateId
        action == IF newType = "review" /\ oldType # "review" THEN "sent_to_review"
                  ELSE IF newType = "completed" /\ oldType = "review" THEN "approved"
                  ELSE "status_changed"
        withReviewer == action = "sent_to_review" /\ Given(data.reviewerId)
        meta == [NoMeta EXCEPT
                   !.oldStatusId = Some(old.workflowStateId),
                   !.newStatusId = data.workflowStateId,
                   !.reviewerId = IF withReviewer THEN data.reviewerId ELSE Undefined,
                   !.reviewerName = IF withReviewer
                                    THEN Some(IF Given(data.reviewer) THEN Val(data.reviewer)
                                              ELSE new.reviewer)
                                    ELSE Undefined]
        status == IF statusChanged
                  THEN <<Activity(issueId, userId, action, "workflowStateId",
                                  nameOf(old.workflowStateId),
                                  IF action = "sent_to_review" /\ Given(data.reviewer)
                                  THEN "Review (Reviewer: " \o Val(data.reviewer) \o ")"
                                  ELSE nameOf(new.workflowStateId),
                                  meta)>>
                  ELSE <<>>
        title == IF Given(data.title) /\ Val(data.title) # old.title
                 THEN <<Activity(issueId, userId, "updated", "title",
                                 old.title, Val(data.title), NoMeta)>>
                 ELSE <<>>
        description ==
            IF Has(data.description) /\ Val(data.description) # old.description
            THEN <<Activity(issueId, userId, "updated", "description",
                            IF Truthy(old.description) THEN old.description ELSE Null,
                            IF Truthy(Val(data.description)) THEN Val(data.description)
                            ELSE Null, NoMeta)>>
            ELSE <<>>
        priority == IF Given(data.priority) /\ Val(data.priority) # old.priority
                    THEN <<Activity(issueId, userId, "updated", "priority",
                                    old.priority, Val(data.priority), NoMeta)>>
                    ELSE <<>>
        \* oldValues.dueDate is currentIssue.dueDate?.toISOString().slice(0, 10):
        \* undefined, not null, for an issue without a due date
        oldDueDate == IF old.dueDate = NoTime THEN Undefined ELSE Some(isoDate(old.dueDate))
        newDueDate == IF Given(data.dueDate) THEN isoDate(parseDate(Val(data.dueDate)))
                      ELSE Null
        dueDate == IF Has(data.dueDate) /\ Some(newDueDate) # oldDueDate
                   THEN <<Activity(issueId, userId, "updated", "dueDate",
                                   IF Has(oldDueDate) THEN Val(oldDueDate) ELSE Null,
                                   newDueDate, NoMeta)>>
                   ELSE <<>>
        difficulty ==
            IF Has(data.difficulty) /\ Val(data.difficulty) # old.difficulty
            THEN <<Activity(issueId, userId, "updated", "difficulty",
                            IF Truthy(old.difficulty) THEN old.difficulty ELSE Null,
                            IF Truthy(Val(data.difficulty)) THEN Val(data.difficulty)
                            ELSE Null, NoMeta)>>
            ELSE <<>>
        oldAssignees == joinNames(old.assignees)
        newAssignees == joinNames(new.assignees)
        assignees ==
            IF Has(data.assigneeIds) /\ newAssignees # oldAssignees
            THEN <<Activity(issueId, userId,
                            IF oldAssignees # "" THEN "reassigned" ELSE "assigned",
                            "assignees",
                            IF oldAssignees # "" THEN oldAssignees ELSE Null,
                            IF newAssignees # "" THEN newAssignees ELSE Null, NoMeta)>>
            ELSE <<>>
    IN status \o title \o description \o priority \o dueDate \o difficulty \o assignees

\* updateIssue(teamId, issueId, data, userId?, userName?) at time t.  The label and
\* assignee tables are written before the parent and workflow checks run, outside any
\* transaction, so a failed call returns the store with those writes in it.
updateIssue(iss, acts, projs, issueId, data, user, t) ==
    IF issueId \notin DOMAIN iss THEN Fail("Issue not found", iss, acts)
    ELSE
    LET currentIssue == iss[issueId]
        locked == typeOf(currentIssue.workflowStateId) = "review"
                  /\ disallowedFields(data) # {}
        data2 == normalizeData(iss, currentIssue, data)
        lErr == labelError(currentIssue, projs, data)
        written == writeAssignees(writeLabels(currentIssue, data), data)
        iss2 == [iss EXCEPT ![issueId] = written]
        pErr == parentError(iss2, issueId, data)
        wErr == workflowError(written, data)
        projectMissing == Has(data.projectId) /\ Val(data.projectId) # Null
                          /\ Val(data.projectId) \notin projs
        updated == applyFields(applyWorkflow(written, data2, t), data2, t)
        logged == IF Has(user)
                  THEN updateActivities(currentIssue, updated, issueId, data, Val(user))
                  ELSE <<>>
    IN IF locked
         THEN Fail(LockError, iss, acts)
       ELSE IF lErr # Null THEN Fail(lErr, iss, acts)
       ELSE IF pErr # Null THEN Fail(pErr, iss2, acts)
       ELSE IF wErr # Null THEN Fail(wErr, iss2, acts)
       ELSE IF projectMissing THEN Fail("Foreign key constraint failed", iss2, acts)
       ELSE Done([iss EXCEPT ![issueId] = updated], acts \o logged)

----------------------------------------------------------------------------
(* POST /api/teams/[teamId]/issues/[issueId]/review: a review decision *)

MinReasonLength == 10

RECURSIVE trimStart(_)
trimStart(str) == IF Len(str) > 0 /\ Head(str) = " " THEN trimStart(Tail(str)) ELSE str

RECURSIVE trimEnd(_)
trimEnd(str) ==
    IF Len(str) > 0 /\ str[Len(str)] = " " THEN trimEnd(SubSeq(str, 1, Len(str) - 1))
    ELSE str

\* String.prototype.trim
trim(str) == trimEnd(trimStart(str))

\* variant: the length test on the untrimmed reason
reasonMissingNoTrim(reason) ==
    ~Has(reason) \/ Len(Val(reason)) = 0 \/ Len(Val(reason)) < MinReasonLength

\* !reason || reason.trim().length < 10
reasonMissing(reason) ==
    ~Has(reason) \/ Len(Val(reason)) = 0 \/ Len(trim(Val(reason))) < MinReasonLength

\* isOwnerOrAdmin || isAssignedReviewer
canReview(userId, row) ==
    roleOf(userId) = "owner" \/ roleOf(userId) = "admin" \/ userId = row.reviewerId

Response(status, r) == [ok |-> r.ok, status |-> status, error |-> r.error,
                        issues |-> r.issues, activities |-> r.activities]

\* the activity the route itself records after updateIssue has returned
decisionActivity(issueId, userId, action, newWorkflowStateId, newReviewerId, reason) ==
    IF action = "approve"
      THEN <<Activity(issueId, userId, "approved", Null, Null, Null,
                      [NoMeta EXCEPT !.approvedBy = Some(userNameOf(userId))])>>
    ELSE IF action = "send_back"
      THEN <<Activity(issueId, userId, "sent_back", Null, Null,
                      IF newWorkflowStateId \in StageIds THEN nameOf(newWorkflowStateId)
                      ELSE "previous state",
                      [NoMeta EXCEPT !.reason = reason])>>
    ELSE IF action = "reassign" /\ Truthy(userNameOf(newReviewerId))
      THEN <<Activity(issueId, userId, "reassigned", "reviewer", Null,
                      userNameOf(newReviewerId),
                      [NoMeta EXCEPT !.newReviewerId = Some(newReviewerId)])>>
    ELSE <<>>

reviewPOST(iss, acts, projs, issueId, userId, body, t) ==
    LET action == body.action
        doneState == findStateOfType("completed")
        todoState == findStateOfType("unstarted")
        newWorkflowStateId ==
            IF action = "approve" THEN doneState
            ELSE IF action = "send_back"
              THEN (IF Given(body.targetStateId) THEN Val(body.targetStateId) ELSE todoState)
            ELSE Null
        updateData ==
            IF action = "reassign"
            THEN [NoData EXCEPT !.reviewerId = body.reviewerId,
                                !.reviewer = Some(userNameOf(Val(body.reviewerId)))]
            ELSE [NoData EXCEPT !.workflowStateId = Some(newWorkflowStateId)]
        r == updateIssue(iss, acts, projs, issueId, updateData, Some(userId), t)
    IN IF ~isMember(userId)
         THEN Response(403, Fail("Unauthorized: Not a team member", iss, acts))
       ELSE IF issueId \notin DOMAIN iss
         THEN Response(404, Fail("Issue not found", iss, acts))
       ELSE IF typeOf(iss[issueId].workflowStateId) # "review"
         THEN Response(400, Fail("Issue must be in Review state to perform review actions",
                                 iss, acts))
       ELSE IF ~canReview(userId, iss[issueId])
         THEN Response(403, Fail("Unauthorized: Only the assigned reviewer, Owners, or Admins can perform review actions",
                                 iss, acts))
       ELSE IF action = "approve" /\ doneState = Null
         THEN Response(400, Fail("Done workflow state not found", iss, acts))
       ELSE IF action = "send_back" /\ reasonMissing(body.reason)
         THEN Response(400, Fail("A detailed reason is required when sending back an issue (at least 10 characters)",
                                 iss, acts))
       ELSE IF action = "send_back" /\ ~Given(body.targetStateId) /\ todoState = Null
         THEN Response(400, Fail("Todo workflow state not found", iss, acts))
       ELSE IF action = "reassign" /\ ~Given(body.reviewerId)
         THEN Response(400, Fail("reviewerId is required for reassign action", iss, acts))
       ELSE IF action = "reassign" /\ ~isMember(Val(body.reviewerId))
         THEN Response(404, Fail("Reviewer not found in team", iss, acts))
       ELSE IF action \notin {"approve", "send_back", "reassign"}
         THEN Response(400, Fail("Invalid action. Must be: approve, send_back, or reassign",
                                 iss, acts))
       ELSE IF ~r.ok THEN Response(500, r)
       ELSE Response(200,
                Done(r.issues,
                     r.activities \o
                       decisionActivity(issueId, userId, action, newWorkflowStateId,
                                        IF action = "reassign" THEN Val(body.reviewerId)
                                        ELSE Null,
                                        body.reason)))

----------------------------------------------------------------------------
(* PATCH /api/teams/[teamId]/issues/[issueId] *)

\* verifyTeamMembership(teamId, userId): throws unless the user has a TeamMember row
verifyTeamMembership(userId) == isMember(userId)

\* the route answers every thrown error with 500 'Failed to update issue'
issuePATCH(iss, acts, projs, issueId, userId, body, t) ==
    IF ~verifyTeamMembership(userId)
    THEN Response(500, Fail("Failed to update issue", iss, acts))
    ELSE LET r == updateIssue(iss, acts, projs, issueId, body, Some(userId), t)
         IN IF r.ok THEN Response(200, r)
            ELSE Response(500, r)

----------------------------------------------------------------------------
(* duplicateProjectAction *)

ProjectIds == <<"p1", "p2">>

\* the id createProjectLib gives the copy: the first unused project id
newProjectId(projs) ==
    ProjectIds[CHOOSE k \in 1..Len(ProjectIds) :
                   /\ ProjectIds[k] \notin projs
                   /\ \A j \in 1..(k - 1) : ProjectIds[j] \in projs]

\* labelMap: the copy of a label of the original project in the new project
labelCopy(l, newProject) ==
    IF \E m \in LabelIds : m # l /\ LabelProject[m] = newProject
    THEN CHOOSE m \in LabelIds : m # l /\ LabelProject[m] = newProject
    ELSE l

\* the rows of the original project that the two loops copy, in createdAt order:
\* first the issues without a parent, then the issues with one
RECURSIVE idsInOrder(_, _)
idsInOrder(S, k) ==
    IF S = {} THEN <<>>
    ELSE IF k \in S THEN <<k>> \o idsInOrder(S \ {k}, k + 1)
    ELSE idsInOrder(S, k + 1)

copyRow(orig, id, number, newProject, newParentId, userId, t) ==
    LET ids0 == orig.assignees
        ids1 == IF Len(ids0) = 0 /\ Truthy(orig.assigneeId) THEN <<orig.assigneeId>>
                ELSE ids0
        assigneeIds == IF Len(ids1) = 0 THEN <<userId>> ELSE ids1
    IN [id |-> id,
        number |-> number,
        title |-> orig.title,
        description |-> orig.description,
        workflowStateId |-> orig.workflowStateId,
        assigneeId |-> assigneeIds[1],
        assignee |-> IF isMember(assigneeIds[1]) THEN userNameOf(assigneeIds[1])
                     ELSE userNameOf(userId),
        assignees |-> assigneeIds,
        priority |-> IF Truthy(orig.priority) THEN orig.priority ELSE "none",
        estimate |-> orig.estimate,
        dueDate |-> IF orig.dueDate # NoTime THEN orig.dueDate ELSE t,
        difficulty |-> orig.difficulty,
        creatorId |-> userId,
        projectId |-> newProject,
        parentId |-> newParentId,
        labels |-> {labelCopy(l, newProject) : l \in orig.labels},
        reviewerId |-> Null,
        reviewer |-> Null,
        reviewedAt |-> NoTime,
        completedAt |-> NoTime,
        updatedAt |-> t]

\* one loop of the transaction: copies the issues of todo in order; st carries the
\* store, the activities and issueMap (original id -> copy id)
RECURSIVE copyLoop(_, _, _, _, _)
copyLoop(st, todo, newProject, userId, t) ==
    IF Len(todo) = 0 THEN st
    ELSE LET orig == st.issues[Head(todo)]
             isChild == orig.parentId # NoIssue
             newParentId == IF isChild /\ orig.parentId \in DOMAIN st.issueMap
                            THEN st.issueMap[orig.parentId] ELSE NoIssue
             skip == (isChild /\ newParentId = NoIssue)
                     \/ ~Truthy(orig.workflowStateId) \/ ~Truthy(orig.difficulty)
             id == newId(st.issues)
             row == copyRow(orig, id, maxNumber(st.issues) + 1, newProject,
                            newParentId, userId, t)
             next == IF skip THEN st
                     ELSE [issues |-> (id :> row) @@ st.issues,
                           activities |->
                               Append(st.activities,
                                      Activity(id, userId, "created", Null, Null, Null,
                                               [NoMeta EXCEPT !.title = Some(row.title)])),
                           issueMap |-> (orig.id :> id) @@ st.issueMap]
         IN copyLoop(next, Tail(todo), newProject, userId, t)

\* the issues duplicateProjectAction creates for project projectId
duplicateIssues(iss, acts, projectId, newProject, userId, t) ==
    LET originals == {i \in DOMAIN iss : iss[i].projectId = projectId}
        parentIssues == idsInOrder({i \in originals : iss[i].parentId = NoIssue}, 1)
        childIssues == idsInOrder({i \in originals : iss[i].parentId # NoIssue}, 1)
        st0 == [issues |-> iss, activities |-> acts, issueMap |-> <<>>]
        st1 == copyLoop(st0, parentIssues, newProject, userId, t)
    IN copyLoop(st1, childIssues, newProject, userId, t)

----------------------------------------------------------------------------
(* The requests the model draws *)

\* strict creation (title, stage, assignee, due date, label, difficulty, project)
\* into every stage, and one quick creation (title and stage only)
CreateBodies ==
    {[NoData EXCEPT !.title = Some("T1"), !.workflowStateId = Some(ws),
                    !.assigneeIds = Some(<<"d1">>), !.projectId = Some("p1"),
                    !.labelIds = Some(<<"l1">>), !.dueDate = Some("2025-01-10"),
                    !.difficulty = Some("S"), !.priority = Some("none")] :
        ws \in StageIds}
    \cup
    {[NoData EXCEPT !.title = Some("T1"), !.workflowStateId = Some("ws_todo"),
                    !.priority = Some("none")]}

Creators == {"d1", "x"}

\* stage changes; a move to Review with no reviewer, with the assignee d1, with d2,
\* with the non-member x, and with d2 under a display name the client chose
StageMoves ==
    {[NoData EXCEPT !.workflowStateId = Some(ws)] :
        ws \in {"ws_progress", "ws_review", "ws_done", "ws_canceled"}}
    \cup {[NoData EXCEPT !.workflowStateId = Some("ws_review"), !.reviewerId = Some(rv)] :
            rv \in {"d1", "d2", "x"}}
    \cup {[NoData EXCEPT !.workflowStateId = Some("ws_review"), !.reviewerId = Some("d2"),
                         !.reviewer = Some("Dora")]}

ReviewerChanges ==
    {[NoData EXCEPT !.reviewerId = Some("d1"), !.reviewer = Some("Dora")],
     [NoData EXCEPT !.reviewerId = Some(Null)]}

\* one edit of each field the review lock protects
FieldEdits ==
    {[NoData EXCEPT !.title = Some("T2")],
     [NoData EXCEPT !.description = Some("D2")],
     [NoData EXCEPT !.priority = Some("high")],
     [NoData EXCEPT !.assigneeIds = Some(<<"d2">>)],
     [NoData EXCEPT !.labelIds = Some(<<>>)],
     [NoData EXCEPT !.dueDate = Some("2025-01-11")],
     [NoData EXCEPT !.difficulty = Some("M")],
     [NoData EXCEPT !.parentId = Some(NoIssue)],
     [NoData EXCEPT !.parentId = Some(1)],
     [NoData EXCEPT !.projectId = Some(Null)],
     [NoData EXCEPT !.estimate = Some(3)]}

EditsWithMove ==
    {[NoData EXCEPT !.title = Some("T2"), !.workflowStateId = Some("ws_done")],
     [NoData EXCEPT !.assigneeIds = Some(<<"d2">>),
                    !.workflowStateId = Some("ws_review"), !.reviewerId = Some("d2")]}

PatchBodies == StageMoves \cup ReviewerChanges \cup EditsWithMove
               \cup {[NoData EXCEPT !.title = Some("T2")],
                     [NoData EXCEPT !.assigneeIds = Some(<<"d2">>)]}

\* requests against the review lock: every protected field, alone and with a stage
\* change, and the two permitted kinds of change
LockBodies ==
    FieldEdits \cup ReviewerChanges
    \cup {[NoData EXCEPT !.title = Some("T2"), !.workflowStateId = Some("ws_progress")],
          [NoData EXCEPT !.workflowStateId = Some("ws_progress")],
          [NoData EXCEPT !.workflowStateId = Some("ws_review"), !.reviewerId = Some("d2")],
          [NoData EXCEPT !.workflowStateId = Some("ws_progress"),
                         !.reviewerId = Some("d2")]}

LockCreateBodies ==
    {b \in CreateBodies : b.workflowStateId \in {Some("ws_progress"), Some("ws_review")}}

LockActors == {"d1", "d2", "o", "x"}

PatchActors == {"d1", "x"}

\* reasons, character by character
Chars(n) == [k \in 1..n |-> "x"]
ShortReason == Chars(MinReasonLength - 1)
GoodReason == Chars(MinReasonLength)
PaddedShortReason == <<" ", " ">> \o ShortReason \o <<" ">>
PaddedGoodReason == <<" ">> \o GoodReason \o <<" ">>

NoBody == [action |-> "none", targetStateId |-> Undefined, reviewerId |-> Undefined,
           reason |-> Undefined]

ReviewBodies ==
    {[NoBody EXCEPT !.action = "approve"], [NoBody EXCEPT !.action = "archive"]}
    \cup {[NoBody EXCEPT !.action = "send_back", !.reason = rs] :
            rs \in {Undefined, Some(<<>>), Some(PaddedShortReason), Some(GoodReason)}}
    \cup {[NoBody EXCEPT !.action = "send_back", !.reason = Some(ShortReason),
                         !.targetStateId = Some("ws_progress")],
          [NoBody EXCEPT !.action = "send_back", !.reason = Some(PaddedGoodReason),
                         !.targetStateId = Some("ws_progress")],
          [NoBody EXCEPT !.action = "send_back", !.reason = Some(GoodReason),
                         !.targetStateId = Some("ws_done")]}
    \cup {[NoBody EXCEPT !.action = "reassign", !.reviewerId = rv] :
            rv \in {Undefined, Some("d2"), Some("x")}}

----------------------------------------------------------------------------
(* State machine *)

Idle == [op |-> "none", issueId |-> NoIssue, userId |-> Null, data |-> NoData,
         body |-> NoBody, at |-> NoTime, ok |-> TRUE, status |-> 0, error |-> Null,
         pre |-> <<>>, preActivities |-> <<>>, ids |-> {},
         query |-> [projectId |-> Null, userId |-> Null], rows |-> <<>>,
         errors |-> <<>>,
         page |-> [limit |-> 0, cursor |-> 0, items |-> <<>>, hasMore |-> FALSE,
                   nextCursor |-> 0, seen |-> <<>>]]

Init ==
    /\ issues = <<>>
    /\ activities = <<>>
    /\ projects = {"p1"}
    /\ now = 2
    /\ last = Idle
    /\ allocated = <<>>
    /\ inflight = <<>>

\* a handler starts only when the previous response has been delivered
ReadyBy(horizon) == last.op = "none" /\ now < 2 + horizon

Ready == ReadyBy(MaxTime)

\* the store after a handler: the clock advances when the handler wrote
Commit(r) ==
    /\ issues' = r.issues
    /\ activities' = r.activities
    /\ now' = IF r.issues # issues \/ r.activities # activities THEN now + 1 ELSE now
    /\ allocated' = allocated \o newNumbers(issues, r.issues)
    /\ UNCHANGED inflight

\* createIssue, as the POST route calls it for a body that has passed its validation
\* and as createIssueAction calls it
CreateUpTo(bodies, limit, horizon) ==
    \E userId \in Creators, data \in bodies :
        /\ ReadyBy(horizon)
        /\ Cardinality(DOMAIN issues) < limit
        /\ LET r == IF verifyTeamMembership(userId)
                    THEN Response(201, createIssue(issues, activities, projects, data,
                                                   userId, now))
                    ELSE Response(500, Fail("Failed to create issue", issues, activities))
           IN /\ Commit(r)
              /\ last' = [Idle EXCEPT !.op = "create", !.userId = userId, !.data = data,
                                      !.at = now,
                                      !.issueId = IF r.ok THEN newId(issues) ELSE NoIssue,
                                      !.ok = r.ok, !.status = r.status, !.error = r.error,
                                      !.pre = issues, !.preActivities = activities]
        /\ UNCHANGED projects

\* PATCH /api/teams/[teamId]/issues/[issueId] (updateIssue)
PatchBy(actors, bodies, horizon) ==
    \E userId \in actors, issueId \in DOMAIN issues, data \in bodies :
        /\ ReadyBy(horizon)
        /\ LET r == issuePATCH(issues, activities, projects, issueId, userId, data, now)
           IN /\ Commit(r)
              /\ last' = [Idle EXCEPT !.op = "patch", !.userId = userId, !.data = data,
                                      !.at = now,
                                      !.issueId = issueId,
                                      !.ok = r.ok, !.status = r.status, !.error = r.error,
                                      !.pre = issues, !.preActivities = activities]
        /\ UNCHANGED projects

Create(bodies) == CreateUpTo(bodies, MaxIssues, MaxTime)

Patch(actors, bodies) == PatchBy(actors, bodies, MaxTime)

CreateIssue == Create(CreateBodies)

CreateForLock == Create(LockCreateBodies)

PatchIssue == Patch(PatchActors, PatchBodies)

PatchLocked == Patch(LockActors, LockBodies)

\* POST /api/teams/[teamId]/issues/[issueId]/review (a review decision)
DecideBy(actors, bodies, horizon) ==
    \E userId \in actors, issueId \in DOMAIN issues, body \in bodies :
        /\ ReadyBy(horizon)
        /\ LET r == reviewPOST(issues, activities, projects, issueId, userId, body, now)
           IN /\ Commit(r)
              /\ last' = [Idle EXCEPT !.op = "review", !.userId = userId, !.body = body,
                                      !.at = now,
                                      !.issueId = issueId,
                                      !.ok = r.ok, !.status = r.status, !.error = r.error,
                                      !.pre = issues, !.preActivities = activities]
        /\ UNCHANGED projects

ReviewDecision == DecideBy(Users, ReviewBodies, MaxTime)

\* duplicateProjectAction(teamId, projectId)
DuplicateProject ==
    \E userId \in Creators, projectId \in projects :
        /\ Ready
        /\ \E k \in 1..Len(ProjectIds) : ProjectIds[k] \notin projects
        /\ LET newProject == newProjectId(projects)
               st == duplicateIssues(issues, activities, projectId, newProject, userId, now)
               member == verifyTeamMembership(userId)
           IN /\ member => Cardinality(DOMAIN st.issues) <= MaxIssues
              /\ issues' = IF member THEN st.issues ELSE issues
              /\ activities' = IF member THEN st.activities ELSE activities
              /\ projects' = IF member THEN projects \cup {newProject} ELSE projects
              /\ now' = IF member THEN now + 1 ELSE now
              /\ allocated' = IF member THEN allocated \o newNumbers(issues, st.issues)
                               ELSE allocated
              /\ UNCHANGED inflight
              /\ last' = [Idle EXCEPT !.op = "duplicate", !.userId = userId, !.at = now,
                                      !.ok = member,
                                      !.error = IF member THEN Null
                                                ELSE "Not a team member",
                                      !.pre = issues, !.preActivities = activities]

\* the response is delivered to the caller
Respond ==
    /\ last.op # "none"
    /\ last' = Idle
    /\ UNCHANGED <<issues, activities, projects, now, allocated, inflight>>

Next == CreateIssue \/ PatchIssue \/ ReviewDecision \/ DuplicateProject \/ Respond

Spec == Init /\ [][Next]_vars

\* the review lock under every kind of field edit
NextLock == CreateForLock \/ PatchLocked \/ Respond

SpecLock == Init /\ [][NextLock]_vars

----------------------------------------------------------------------------
(* Concurrent createIssue calls *)

\* The transaction of createIssue is db.$transaction(async (tx) => ...) with no
\* isolationLevel, so it runs at the database's default level, which lets two open
\* transactions both read the maximum before either has inserted.  The schema is not
\* part of the sources: with a unique index on the number the second insert of a
\* number fails and its transaction rolls back, without one it succeeds.
Calls == 1..MaxIssues

AllocCreators == {"d1"}

\* tx.issue.aggregate({ _max: { number: true } }) of call c, whose request is data
ReadMaximum(c) ==
    \E data \in CreateBodies, userId \in AllocCreators :
        /\ c \notin DOMAIN inflight
        /\ inflight' = (c :> [pc |-> "read", data |-> data, userId |-> userId,
                              max |-> maxNumber(issues)]) @@ inflight
        /\ UNCHANGED <<issues, activities, projects, now, last, allocated>>

\* tx.issue.create({ data: { ..., number: nextNumber } }), the created activity and
\* the commit of call c
InsertIssue(c) ==
    /\ c \in DOMAIN inflight
    /\ inflight[c].pc = "read"
    /\ LET t == inflight[c]
           nextNumber == t.max + 1
           r == createIssue(issues, activities, projects, t.data, t.userId, now)
           id == newId(issues)
           taken == \E i \in DOMAIN issues : issues[i].number = nextNumber
       IN \E uniqueIndex \in BOOLEAN :
             IF ~r.ok \/ (uniqueIndex /\ taken)
             THEN /\ inflight' = [inflight EXCEPT ![c].pc = "failed"]
                  /\ UNCHANGED <<issues, activities, now, allocated>>
             ELSE /\ issues' = [r.issues EXCEPT ![id].number = nextNumber]
                  /\ activities' = r.activities
                  /\ now' = now + 1
                  /\ allocated' = allocated \o <<nextNumber>>
                  /\ inflight' = [inflight EXCEPT ![c].pc = "done"]
    /\ UNCHANGED <<projects, last>>

NextAlloc == \E c \in Calls : ReadMaximum(c) \/ InsertIssue(c)

SpecAlloc == Init /\ [][NextAlloc]_vars

----------------------------------------------------------------------------
(* deleteIssue, deleteIssues and the DELETE route *)

NotMemberError == "Unauthorized: Not a team member"
RoleError == "Unauthorized: Only Team Owners and Admins can delete issues"

\* the error of the role check both functions start with, or Null
deleteRoleError(userId) ==
    IF ~isMember(userId) THEN NotMemberError
    ELSE IF roleOf(userId) # "owner" /\ roleOf(userId) # "admin" THEN RoleError
    ELSE Null

\* the rows that reference a deleted issue follow the schema's referential actions,
\* which are not part of the sources: cascade tells whether its activities go with it
withoutIssues(acts, ids, cascade) ==
    IF cascade THEN SelectSeq(acts, LAMBDA a : a.issueId \notin ids) ELSE acts

\* variant: deleteIssue without the role check
deleteIssueAnyone(iss, acts, issueId, userId, cascade) ==
    IF issueId \notin DOMAIN iss
      THEN Fail("Record to delete does not exist.", iss, acts)
    ELSE Done([i \in DOMAIN iss \ {issueId} |-> iss[i]],
              withoutIssues(acts, {issueId}, cascade))

deleteIssue(iss, acts, issueId, userId, cascade) ==
    IF deleteRoleError(userId) # Null
      THEN Fail(deleteRoleError(userId), iss, acts)
    ELSE IF issueId \notin DOMAIN iss
      THEN Fail("Record to delete does not exist.", iss, acts)
    ELSE Done([i \in DOMAIN iss \ {issueId} |-> iss[i]],
              withoutIssues(acts, {issueId}, cascade))

deleteIssues(iss, acts, issueIds, userId, cascade) ==
    IF deleteRoleError(userId) # Null
      THEN Fail(deleteRoleError(userId), iss, acts)
    ELSE IF issueIds = {}
      THEN Fail("No issues provided for deletion", iss, acts)
    ELSE Done([i \in DOMAIN iss \ issueIds |-> iss[i]],
              withoutIssues(acts, issueIds \cap DOMAIN iss, cascade))

\* error.message?.includes('Unauthorized')
includesUnauthorized(msg) == msg \in {NotMemberError, RoleError}

\* DELETE /api/teams/[teamId]/issues/[issueId]
issueDELETE(iss, acts, issueId, userId, cascade) ==
    LET r == deleteIssue(iss, acts, issueId, userId, cascade)
    IN IF r.ok THEN Response(200, r)
       ELSE Response(IF includesUnauthorized(r.error) THEN 403 ELSE 500, r)

DeleteActors == {"o", "a", "d1", "x"}

DeleteIssue ==
    \E userId \in DeleteActors, issueId \in IssueIds, cascade \in BOOLEAN :
        /\ Ready
        /\ LET r == issueDELETE(issues, activities, issueId, userId, cascade)
           IN /\ Commit(r)
              /\ last' = [Idle EXCEPT !.op = "delete", !.userId = userId, !.at = now,
                                      !.issueId = issueId, !.ids = {issueId},
                                      !.ok = r.ok, !.status = r.status, !.error = r.error,
                                      !.pre = issues, !.preActivities = activities]
        /\ UNCHANGED projects

DeleteIssues ==
    \E userId \in DeleteActors, issueIds \in SUBSET IssueIds, cascade \in BOOLEAN :
        /\ Ready
        /\ LET r == deleteIssues(issues, activities, issueIds, userId, cascade)
           IN /\ Commit(r)
              /\ last' = [Idle EXCEPT !.op = "deleteMany", !.userId = userId, !.at = now,
                                      !.ids = issueIds,
                                      !.ok = r.ok, !.error = r.error,
                                      !.pre = issues, !.preActivities = activities]
        /\ UNCHANGED projects

NextDelete == CreateIssue \/ DeleteIssue \/ DeleteIssues \/ Respond

SpecDelete == Init /\ [][NextDelete]_vars

----------------------------------------------------------------------------
(* Sub-issues: creation under a parent and changes of parent *)

\* a tree needs one issue more than the other specifications hold
TreeSize == MaxIssues + 1

\* time for building the tree and for two changes of parent
TreeTime == TreeSize + 2

\* quick creation, at top level or under the issue p (present or not)
SubIssueBodies ==
    {[NoData EXCEPT !.title = Some("T1"), !.workflowStateId = Some("ws_todo"),
                    !.priority = Some("none")]}
    \cup {[NoData EXCEPT !.title = Some("T1"), !.workflowStateId = Some("ws_todo"),
                         !.priority = Some("none"), !.parentId = Some(p)] :
            p \in 1..TreeSize}

\* 'parentId' in body: a new parent, or null to clear it
ParentChanges == {[NoData EXCEPT !.parentId = Some(p)] : p \in {NoIssue} \cup 1..TreeSize}

TreeActors == {"d1"}

CreateSubIssue == CreateUpTo(SubIssueBodies, TreeSize, TreeTime)

PatchParent == PatchBy(TreeActors, ParentChanges, TreeTime)

NextTree == CreateSubIssue \/ PatchParent \/ Respond

SpecTree == Init /\ [][NextTree]_vars

----------------------------------------------------------------------------
(* Field edits: values equal to the stored ones, empty values, changes of project,
   of labels and of assignees, and edits that fail after their first writes *)

\* strict creation with one and with two assignees, and the creation of
\* createIssueAction: title, stage, priority and the single assigneeId with its name
EditCreateBodies ==
    {[NoData EXCEPT !.title = Some("T1"), !.workflowStateId = Some(ws),
                    !.assigneeIds = Some(who), !.projectId = Some("p1"),
                    !.labelIds = Some(<<"l1">>), !.dueDate = Some("2025-01-10"),
                    !.difficulty = Some("S"), !.priority = Some("none")] :
        ws \in {"ws_progress", "ws_review"}, who \in {<<"d1">>, <<"d2", "d1">>}}
    \cup
    {[NoData EXCEPT !.title = Some("T1"), !.workflowStateId = Some("ws_todo"),
                    !.priority = Some("none")],
     [NoData EXCEPT !.title = Some("T1"), !.workflowStateId = Some("ws_todo"),
                    !.priority = Some("none"), !.assigneeId = Some("d1"),
                    !.assignee = Some("Dora")]}

EditBodies ==
    {[NoData EXCEPT !.title = Some("T1")],
     [NoData EXCEPT !.title = Some("T2")],
     [NoData EXCEPT !.description = Some("")],
     [NoData EXCEPT !.dueDate = Some(Null)],
     [NoData EXCEPT !.difficulty = Some("S")],
     [NoData EXCEPT !.assigneeIds = Some(<<>>)],
     [NoData EXCEPT !.assigneeIds = Some(<<"d2", "d1">>)],
     [NoData EXCEPT !.assigneeIds = Some(<<"x">>)],
     [NoData EXCEPT !.labelIds = Some(<<"l1">>)],
     [NoData EXCEPT !.labelIds = Some(<<"l2">>)],
     [NoData EXCEPT !.projectId = Some(Null)],
     [NoData EXCEPT !.projectId = Some("p2")],
     [NoData EXCEPT !.projectId = Some("p2"), !.labelIds = Some(<<"l2">>)],
     [NoData EXCEPT !.workflowStateId = Some("ws_review")],
     [NoData EXCEPT !.workflowStateId = Some("ws_done")],
     [NoData EXCEPT !.assigneeIds = Some(<<"d2">>), !.workflowStateId = Some("ws_done")],
     [NoData EXCEPT !.labelIds = Some(<<>>), !.workflowStateId = Some("ws_review")],
     [NoData EXCEPT !.labelIds = Some(<<>>), !.parentId = Some(1)]}

EditActors == {"d1", "x"}

InitEdit ==
    /\ issues = <<>>
    /\ activities = <<>>
    /\ projects = {"p1", "p2"}
    /\ now = 2
    /\ last = Idle
    /\ allocated = <<>>
    /\ inflight = <<>>

CreateForEdit == Create(EditCreateBodies)

EditIssue == Patch(EditActors, EditBodies)

NextEdit == CreateForEdit \/ EditIssue \/ Respond

SpecEdit == InitEdit /\ [][NextEdit]_vars

----------------------------------------------------------------------------
(* GET /api/teams/[teamId]/aep-summary: the closure summary *)

\* variant: the time of day is kept
startOfDayExact(t) == t

\* new Date(d).setHours(0, 0, 0, 0): the start of the day of a DateTime
startOfDay(t) == (t \div 2) * 2

\* variant: only the issues that went through Review are fetched
completedIssuesReviewed(iss, projectId, filterUserId) ==
    {i \in DOMAIN iss :
        /\ typeOf(iss[i].workflowStateId) = "completed"
        /\ iss[i].reviewedAt # NoTime
        /\ Truthy(projectId) => iss[i].projectId = projectId
        /\ IF Truthy(filterUserId)
           THEN iss[i].assigneeId = filterUserId
                \/ filterUserId \in RangeOf(iss[i].assignees)
           ELSE iss[i].assigneeId # Null \/ Len(iss[i].assignees) > 0}

\* whereClause: completed stage of the team, the project if given, and the assignee
\* condition (the filtered user, or any assignee at all)
completedIssues(iss, projectId, filterUserId) ==
    {i \in DOMAIN iss :
        /\ typeOf(iss[i].workflowStateId) = "completed"
        /\ Truthy(projectId) => iss[i].projectId = projectId
        /\ IF Truthy(filterUserId)
           THEN iss[i].assigneeId = filterUserId
                \/ filterUserId \in RangeOf(iss[i].assignees)
           ELSE iss[i].assigneeId # Null \/ Len(iss[i].assignees) > 0}

NewSummary(userId, userName) ==
    [userId |-> userId, userName |-> userName, sClosed |-> 0, mClosed |-> 0,
     lClosed |-> 0, totalClosed |-> 0, onTimeClosed |-> 0, delayedClosed |-> 0]

\* variant: an issue without a difficulty tier is left out of the total
countIssueTiered(sum, issue) ==
    LET comparisonDate == IF issue.reviewedAt # NoTime THEN issue.reviewedAt
                          ELSE IF issue.completedAt # NoTime THEN issue.completedAt
                          ELSE issue.updatedAt
        dated == issue.dueDate # NoTime /\ comparisonDate # NoTime
        onTime == startOfDay(comparisonDate) <= startOfDay(issue.dueDate)
        tiered == issue.difficulty \in {"S", "M", "L"}
    IN [sum EXCEPT
          !.sClosed = IF issue.difficulty = "S" THEN @ + 1 ELSE @,
          !.mClosed = IF issue.difficulty = "M" THEN @ + 1 ELSE @,
          !.lClosed = IF issue.difficulty = "L" THEN @ + 1 ELSE @,
          !.totalClosed = IF tiered THEN @ + 1 ELSE @,
          !.onTimeClosed = IF dated /\ onTime THEN @ + 1 ELSE @,
          !.delayedClosed = IF dated /\ ~onTime THEN @ + 1 ELSE @]

\* the counters one issue adds to a user's summary
countIssue(sum, issue) ==
    LET comparisonDate == IF issue.reviewedAt # NoTime THEN issue.reviewedAt
                          ELSE IF issue.completedAt # NoTime THEN issue.completedAt
                          ELSE issue.updatedAt
        dated == issue.dueDate # NoTime /\ comparisonDate # NoTime
        onTime == startOfDay(comparisonDate) <= startOfDay(issue.dueDate)
    IN [sum EXCEPT
          !.sClosed = IF issue.difficulty = "S" THEN @ + 1 ELSE @,
          !.mClosed = IF issue.difficulty = "M" THEN @ + 1 ELSE @,
          !.lClosed = IF issue.difficulty = "L" THEN @ + 1 ELSE @,
          !.totalClosed = @ + 1,
          !.onTimeClosed = IF dated /\ onTime THEN @ + 1 ELSE @,
          !.delayedClosed = IF dated /\ ~onTime THEN @ + 1 ELSE @]

\* processAssignee on userMap, a sequence of summaries in order of insertion
processAssignee(userMap, userId, userName, issue) ==
    IF \E k \in 1..Len(userMap) : userMap[k].userId = userId
    THEN [k \in 1..Len(userMap) |->
             IF userMap[k].userId = userId THEN countIssue(userMap[k], issue)
             ELSE userMap[k]]
    ELSE Append(userMap, countIssue(NewSummary(userId, userName), issue))

\* for (const assignee of issue.assignees) processAssignee(...)
RECURSIVE processAssignees(_, _, _)
processAssignees(userMap, ids, issue) ==
    IF Len(ids) = 0 THEN userMap
    ELSE processAssignees(processAssignee(userMap, Head(ids), userNameOf(Head(ids)), issue),
                          Tail(ids), issue)

\* variant: the recorded reviewer of an issue is counted with its assignees
RECURSIVE processIssuesAndReviewer(_, _, _)
processIssuesAndReviewer(userMap, iss, todo) ==
    IF Len(todo) = 0 THEN userMap
    ELSE LET issue == iss[Head(todo)]
             ids == IF Truthy(issue.reviewerId)
                    THEN Append(issue.assignees, issue.reviewerId) ELSE issue.assignees
         IN processIssuesAndReviewer(processAssignees(userMap, ids, issue), iss, Tail(todo))

\* for (const issue of completedIssues) ...
RECURSIVE processIssues(_, _, _)
processIssues(userMap, iss, todo) ==
    IF Len(todo) = 0 THEN userMap
    ELSE LET issue == iss[Head(todo)]
             next == IF Len(issue.assignees) > 0
                       THEN processAssignees(userMap, issue.assignees, issue)
                     ELSE IF Truthy(issue.assigneeId)
                       THEN processAssignee(userMap, issue.assigneeId,
                                            IF Truthy(issue.assignee) THEN issue.assignee
                                            ELSE IF isMember(issue.assigneeId)
                                              THEN userNameOf(issue.assigneeId)
                                            ELSE "Unknown",
                                            issue)
                     ELSE userMap
         IN processIssues(next, iss, Tail(todo))

\* Array.prototype.sort((a, b) => b.totalClosed - a.totalClosed), which is stable
RECURSIVE insertByTotal(_, _)
insertByTotal(sorted, x) ==
    IF Len(sorted) = 0 THEN <<x>>
    ELSE IF Head(sorted).totalClosed >= x.totalClosed
      THEN <<Head(sorted)>> \o insertByTotal(Tail(sorted), x)
    ELSE <<x>> \o sorted

RECURSIVE sortByTotal(_)
sortByTotal(rows) ==
    IF Len(rows) = 0 THEN <<>>
    ELSE insertByTotal(sortByTotal(SubSeq(rows, 1, Len(rows) - 1)), rows[Len(rows)])

\* the summary rows of the handler
getClosureSummary(iss, projectId, filterUserId) ==
    sortByTotal(processIssues(<<>>, iss,
                              idsInOrder(completedIssues(iss, projectId, filterUserId), 1)))

aepGET(iss, userId, projectId, filterUserId) ==
    IF verifyTeamMembership(userId)
    THEN [ok |-> TRUE, status |-> 200, error |-> Null,
          rows |-> getClosureSummary(iss, projectId, filterUserId)]
    ELSE [ok |-> FALSE, status |-> 500, error |-> "Failed to fetch AEP summary",
          rows |-> <<>>]

\* The stores the summary is computed over.  A row is a closed or a review issue as
\* the workflow leaves it (reviewedAt <= completedAt <= updatedAt), or a legacy row:
\* closed without reviewedAt or completedAt, or with the single assigneeId only.
SummaryAssignees ==
    {[assigneeId |-> Null, assignees |-> <<>>],
     [assigneeId |-> "d1", assignees |-> <<>>],
     [assigneeId |-> "d1", assignees |-> <<"d1">>],
     [assigneeId |-> "d2", assignees |-> <<"d2">>],
     [assigneeId |-> "d1", assignees |-> <<"d1", "d2">>]}

SummaryDates ==
    {d \in [dueDate : {NoTime, parseDate("2025-01-10")},
            reviewedAt : {NoTime, 3, 5, 6},
            completedAt : {NoTime, 5, 8},
            updatedAt : {5, 8}] :
        /\ d.reviewedAt # NoTime /\ d.completedAt # NoTime => d.reviewedAt <= d.completedAt
        /\ d.reviewedAt <= d.updatedAt
        /\ d.completedAt <= d.updatedAt}

summaryRow(id, ws, who, difficulty, d, projectId, reviewerId) ==
    [id |-> id, number |-> id, title |-> "T1", description |-> Null,
     workflowStateId |-> ws, assigneeId |-> who.assigneeId,
     assignee |-> IF who.assigneeId = Null THEN Null ELSE userNameOf(who.assigneeId),
     assignees |-> who.assignees, priority |-> "none", dueDate |-> d.dueDate,
     difficulty |-> difficulty, estimate |-> NoEstimate, creatorId |-> "o",
     projectId |-> projectId, parentId |-> NoIssue, labels |-> {},
     reviewerId |-> reviewerId,
     reviewer |-> IF reviewerId = Null THEN Null ELSE userNameOf(reviewerId),
     reviewedAt |-> d.reviewedAt, completedAt |-> d.completedAt,
     updatedAt |-> d.updatedAt]

\* every kind of closed row, for a store of one issue
ClosedRows(id) ==
    {summaryRow(id, "ws_done", who, difficulty, d, "p1", Null) :
        who \in SummaryAssignees, difficulty \in {"S", "M", "L", Null}, d \in SummaryDates}

\* fewer kinds of row, for the stores of several issues
FewDates ==
    {d \in SummaryDates : d.dueDate # NoTime /\ d.updatedAt = 8 /\ d.completedAt = 8
                          /\ d.reviewedAt \in {3, 6}}

MixedRows(id) ==
    {summaryRow(id, "ws_done", who, difficulty, d, projectId, Null) :
        who \in {w \in SummaryAssignees : Len(w.assignees) > 0},
        difficulty \in {"S", "M"}, d \in FewDates, projectId \in {"p1", "p2"}}
    \cup {summaryRow(id, "ws_review", [assigneeId |-> "d1", assignees |-> <<"d1">>], "S",
                     [dueDate |-> parseDate("2025-01-10"), reviewedAt |-> 3,
                      completedAt |-> NoTime, updatedAt |-> 3], "p1", "d2")}

SummaryStores ==
    {(1 :> r) : r \in ClosedRows(1)}
    \cup UNION {{f \in [1..n -> UNION {MixedRows(i) : i \in 1..n}] :
                    \A i \in 1..n : f[i].id = i} : n \in 2..MaxIssues}

InitSummary ==
    /\ issues \in SummaryStores
    /\ activities = <<>>
    /\ projects = {"p1", "p2"}
    /\ now = 10
    /\ last = Idle
    /\ allocated = [k \in 1..Cardinality(DOMAIN issues) |-> k]
    /\ inflight = <<>>

SummaryCallers == {"d1", "x"}
SummaryProjects == {Null, "p1"}
SummaryUsers == {Null, "d1", "d2"}

GetSummary ==
    \E userId \in SummaryCallers, projectId \in SummaryProjects,
       filterUserId \in SummaryUsers :
        /\ last.op = "none"
        /\ LET r == aepGET(issues, userId, projectId, filterUserId)
           IN last' = [Idle EXCEPT !.op = "summary", !.userId = userId, !.at = now,
                                   !.query = [projectId |-> projectId,
                                              userId |-> filterUserId],
                                   !.ok = r.ok, !.status = r.status, !.error = r.error,
                                   !.rows = r.rows,
                                   !.pre = issues, !.preActivities = activities]
        /\ UNCHANGED <<issues, activities, projects, now, allocated, inflight>>

NextSummary == GetSummary \/ Respond

SpecSummary == InitSummary /\ [][NextSummary]_vars

----------------------------------------------------------------------------
(* POST /api/teams/[teamId]/issues: the mandatory fields of a new issue *)

\* the strings whose trim() is '': the model draws the empty string and one blank
Blank == {"", " "}

\* !s || s.trim() === ''
missing(opt) == ~Given(opt) \/ Val(opt) \in Blank

\* assigneeIds of the body without empty entries and 'unassigned', or the single
\* assigneeId as a list
normalizeAssigneeIds(body) ==
    IF Has(body.assigneeIds)
      THEN SelectSeq(Val(body.assigneeIds), LAMBDA id : Truthy(id) /\ id # "unassigned")
    ELSE IF Given(body.assigneeId) /\ Val(body.assigneeId) # "unassigned"
      THEN <<Val(body.assigneeId)>>
    ELSE <<>>

\* variant: validation stops at the first rule that is violated
validationErrorsFirstOnly(body) ==
    IF missing(body.title) THEN <<"Title is required">>
    ELSE IF missing(body.workflowStateId) THEN <<"Stage is required">>
    ELSE IF Len(normalizeAssigneeIds(body)) = 0
      THEN <<"At least one assignee is required">>
    ELSE IF missing(body.dueDate) THEN <<"Due date is required">>
    ELSE IF ~Has(body.labelIds) \/ Len(Val(body.labelIds)) = 0
      THEN <<"At least one tag is required">>
    ELSE IF ~Given(body.difficulty) \/ Val(body.difficulty) \notin {"S", "M", "L"}
      THEN <<"Estimated size (S/M/L) is required">>
    ELSE <<>>

\* validationErrors, in the order the rules push their messages
validationErrors(body) ==
    (IF missing(body.title) THEN <<"Title is required">> ELSE <<>>)
    \o (IF missing(body.workflowStateId) THEN <<"Stage is required">> ELSE <<>>)
    \o (IF Len(normalizeAssigneeIds(body)) = 0
        THEN <<"At least one assignee is required">> ELSE <<>>)
    \o (IF missing(body.dueDate) THEN <<"Due date is required">> ELSE <<>>)
    \o (IF ~Has(body.labelIds) \/ Len(Val(body.labelIds)) = 0
        THEN <<"At least one tag is required">> ELSE <<>>)
    \o (IF ~Given(body.difficulty) \/ Val(body.difficulty) \notin {"S", "M", "L"}
        THEN <<"Estimated size (S/M/L) is required">> ELSE <<>>)

\* issueData: the CreateIssueData the route builds from a body
issueDataOf(body) ==
    [NoData EXCEPT
       !.title = body.title,
       !.description = body.description,
       !.projectId = IF missing(body.projectId) THEN Undefined ELSE body.projectId,
       !.workflowStateId = body.workflowStateId,
       !.assigneeIds = Some(normalizeAssigneeIds(body)),
       !.priority = Some(IF Given(body.priority) THEN Val(body.priority) ELSE "none"),
       !.estimate = body.estimate,
       !.labelIds = body.labelIds,
       !.dueDate = body.dueDate,
       !.difficulty = body.difficulty]

issuePOST(iss, acts, projs, body, userId, t) ==
    LET errs == validationErrors(body)
        r == createIssue(iss, acts, projs, issueDataOf(body), userId, t)
    IN IF Len(errs) > 0
         THEN [ok |-> FALSE, status |-> 400, error |-> errs[1], errors |-> errs,
               issues |-> iss, activities |-> acts]
       ELSE IF ~verifyTeamMembership(userId) \/ ~r.ok
         THEN [ok |-> FALSE, status |-> 500, error |-> "Failed to create issue",
               errors |-> <<>>, issues |-> iss, activities |-> acts]
       ELSE [ok |-> TRUE, status |-> 201, error |-> Null, errors |-> <<>>,
             issues |-> r.issues, activities |-> r.activities]

\* bodies: every mandatory field present and well formed, absent, or malformed
PostBodies ==
    {[NoData EXCEPT !.title = title, !.workflowStateId = ws, !.assigneeIds = who[1],
                    !.assigneeId = who[2], !.dueDate = due, !.labelIds = labels,
                    !.difficulty = difficulty, !.projectId = Some("p1")] :
        title \in {Undefined, Some(" "), Some("T1")},
        ws \in {Undefined, Some("ws_todo")},
        who \in {<<Undefined, Undefined>>, <<Some(<<"d1">>), Undefined>>,
                 <<Some(<<"unassigned">>), Undefined>>, <<Undefined, Some("d1")>>,
                 <<Undefined, Some("unassigned")>>},
        due \in {Undefined, Some(""), Some("2025-01-10")},
        labels \in {Undefined, Some(<<>>), Some(<<"l1">>)},
        difficulty \in {Undefined, Some("XL"), Some("S")}}

PostIssue ==
    \E userId \in Creators, body \in PostBodies :
        /\ Ready
        /\ Cardinality(DOMAIN issues) < MaxIssues
        /\ LET r == issuePOST(issues, activities, projects, body, userId, now)
           IN /\ Commit(r)
              /\ last' = [Idle EXCEPT !.op = "post", !.userId = userId, !.data = body,
                                      !.at = now,
                                      !.issueId = IF r.ok THEN newId(issues) ELSE NoIssue,
                                      !.ok = r.ok, !.status = r.status, !.error = r.error,
                                      !.errors = r.errors,
                                      !.pre = issues, !.preActivities = activities]
        /\ UNCHANGED projects

NextPost == PostIssue \/ Respond

SpecPost == Init /\ [][NextPost]_vars

----------------------------------------------------------------------------
(* getIssueActivities and GET /api/teams/[teamId]/issues/[issueId]/activities *)

\* the longest activity log the listing is checked on
MaxLog == MaxIssues + 2

\* cursor: undefined
NoCursor == 0

\* the IssueActivity rows of an issue, with the id and createdAt the table gives them
logOf(acts, issueId) == {a \in RangeOf(acts) : a.issueId = issueId}

\* findMany({ where: { issueId }, orderBy: { createdAt: 'desc' } }): the rows newest
\* first.  createdAt is the only sort key, so the rows that share a createdAt come in
\* an order the database chooses, query by query.
orderings(rows) ==
    {o \in [1..Cardinality(rows) -> rows] :
        /\ \A j, k \in DOMAIN o : j # k => o[j] # o[k]
        /\ \A j, k \in DOMAIN o : j < k => o[j].createdAt >= o[k].createdAt}

\* cursor: { id: cursor }, skip: 1: the rows that follow the cursor row
afterCursor(order, cursor) ==
    IF cursor = NoCursor THEN order
    ELSE LET at == {k \in DOMAIN order : order[k].id = cursor}
         IN IF at = {} THEN <<>>
            ELSE SubSeq(order, (CHOOSE k \in at : TRUE) + 1, Len(order))

\* getIssueActivities(issueId, { limit, cursor }) when the query returns order
getIssueActivities(order, limit, cursor) ==
    LET following == afterCursor(order, cursor)
        fetched == SubSeq(following, 1,
                          IF Len(following) < limit + 1 THEN Len(following) ELSE limit + 1)
        hasMore == Len(fetched) > limit
        items == IF hasMore THEN SubSeq(fetched, 1, Len(fetched) - 1) ELSE fetched
    IN [items |-> items,
        hasMore |-> hasMore,
        nextCursor |-> IF hasMore /\ Len(items) > 0 THEN items[Len(items)].id
                       ELSE NoCursor]

activitiesGET(iss, order, issueId, userId, limit, cursor) ==
    LET r == getIssueActivities(order, limit, cursor)
    IN IF ~verifyTeamMembership(userId)
         THEN [ok |-> FALSE, status |-> 500, error |-> "Failed to fetch activities",
               items |-> <<>>, hasMore |-> FALSE, nextCursor |-> NoCursor]
       ELSE IF issueId \notin DOMAIN iss
         THEN [ok |-> FALSE, status |-> 404, error |-> "Issue not found",
               items |-> <<>>, hasMore |-> FALSE, nextCursor |-> NoCursor]
       ELSE [ok |-> TRUE, status |-> 200, error |-> Null,
             items |-> r.items, hasMore |-> r.hasMore, nextCursor |-> r.nextCursor]

\* The logs the listing is computed over: the created record of issue 1, then the
\* records of its edits.  updateIssue inserts the records of one edit with
\* Promise.all, in parallel, so records of one edit may share their createdAt.
LogTimes ==
    {f \in UNION {[1..n -> 1..MaxLog] : n \in 1..MaxLog} :
        /\ f[1] = 1
        /\ \A k \in DOMAIN f : k > 1 => f[k] > 1
        /\ \A j, k \in DOMAIN f : j < k => f[j] <= f[k]}

logRow(k, t) ==
    (IF k = 1
     THEN Activity(1, "d1", "created", Null, Null, Null, [NoMeta EXCEPT !.title = Some("T1")])
     ELSE Activity(1, "d1", "updated", IF k % 2 = 0 THEN "title" ELSE "priority",
                   Null, Null, NoMeta))
    @@ [id |-> k, createdAt |-> t]

InitActivity ==
    /\ issues = createIssue(<<>>, <<>>, {"p1"},
                            [NoData EXCEPT !.title = Some("T1"),
                                           !.workflowStateId = Some("ws_todo"),
                                           !.priority = Some("none")], "d1", 2).issues
    /\ \E f \in LogTimes : activities = [k \in DOMAIN f |-> logRow(k, f[k])]
    /\ projects = {"p1"}
    /\ now = 2 + MaxLog
    /\ last = Idle
    /\ allocated = <<1>>
    /\ inflight = <<>>

ListCallers == {"d1", "x"}

ListLimits == 1..MaxLog

listed(r, userId, issueId, limit, cursor, seen) ==
    [Idle EXCEPT !.op = "activity", !.userId = userId, !.issueId = issueId,
                 !.at = now, !.ok = r.ok, !.status = r.status, !.error = r.error,
                 !.pre = issues, !.preActivities = activities,
                 !.page = [limit |-> limit, cursor |-> cursor, items |-> r.items,
                           hasMore |-> r.hasMore, nextCursor |-> r.nextCursor,
                           seen |-> seen \o [k \in DOMAIN r.items |-> r.items[k].id]]]

\* the first page: GET .../activities?limit=n
ListActivity ==
    \E userId \in ListCallers, issueId \in IssueIds, limit \in ListLimits :
        /\ last.op = "none"
        /\ \E order \in orderings(logOf(activities, issueId)) :
              last' = listed(activitiesGET(issues, order, issueId, userId, limit, NoCursor),
                             userId, issueId, limit, NoCursor, <<>>)
        /\ UNCHANGED <<issues, activities, projects, now, allocated, inflight>>

\* the next page: the same request with cursor=nextCursor of the page before (the
\* walk is followed until it has returned more records than the longest log holds)
ListMore ==
    /\ last.op = "activity"
    /\ last.ok
    /\ last.page.hasMore
    /\ Len(last.page.seen) <= MaxLog
    /\ \E order \in orderings(logOf(activities, last.issueId)) :
          last' = listed(activitiesGET(issues, order, last.issueId, last.userId,
                                       last.page.limit, last.page.nextCursor),
                         last.userId, last.issueId, last.page.limit,
                         last.page.nextCursor, last.page.seen)
    /\ UNCHANGED <<issues, activities, projects, now, allocated, inflight>>

NextActivity == ListActivity \/ ListMore \/ Respond

SpecActivity == InitActivity /\ [][NextActivity]_vars

----------------------------------------------------------------------------
(* Concurrent updateIssue calls *)

\* updateIssue runs outside any transaction: the read of the current row with the
\* review lock and the read of the largest number, the writes of the label and
\* assignee tables, the parent and workflow checks, and the final db.issue.update are
\* separate awaited queries, and queries of other requests run between them.
Writers == 1..2

RaceProjects == {"p1", "p2"}

RaceSeedBody ==
    [NoData EXCEPT !.title = Some("T1"), !.workflowStateId = Some("ws_progress"),
                   !.assigneeIds = Some(<<"d1">>), !.projectId = Some("p1"),
                   !.labelIds = Some(<<"l1">>), !.dueDate = Some("2025-01-10"),
                   !.difficulty = Some("S"), !.priority = Some("none")]

\* the store after n strict creations by d1
RECURSIVE seeded(_)
seeded(n) ==
    IF n = 0 THEN Done(<<>>, <<>>)
    ELSE LET s == seeded(n - 1)
         IN createIssue(s.issues, s.activities, RaceProjects, RaceSeedBody, "d1", 2)

InitRace ==
    /\ issues = seeded(MaxIssues).issues
    /\ activities = seeded(MaxIssues).activities
    /\ projects = RaceProjects
    /\ now = 2
    /\ last = Idle
    /\ allocated = [k \in 1..MaxIssues |-> k]
    /\ inflight = <<>>

\* a field edit, an edit of the assignees, a move to Review, a change of project and
\* every change of parent
RaceBodies ==
    {[NoData EXCEPT !.title = Some("T2")],
     [NoData EXCEPT !.assigneeIds = Some(<<"d2">>)],
     [NoData EXCEPT !.workflowStateId = Some("ws_review"), !.reviewerId = Some("d2")],
     [NoData EXCEPT !.projectId = Some("p2")]}
    \cup {[NoData EXCEPT !.parentId = Some(p)] : p \in IssueIds}

RaceActors == {"d1"}

\* the keys of updateData: the columns the final db.issue.update sets
updateColumns(row, data) ==
    LET curType == typeOf(row.workflowStateId)
        moves == Has(data.workflowStateId)
        newType == IF moves THEN typeOf(Val(data.workflowStateId)) ELSE curType
        entering == moves /\ newType = "review" /\ curType # "review"
        leaving == moves /\ newType # "review" /\ curType = "review"
    IN {f \in {"parentId", "title", "description", "projectId", "assigneeId", "assignee",
               "priority", "estimate", "dueDate", "difficulty", "number"} : Has(data[f])}
       \cup (IF moves THEN {"workflowStateId", "completedAt"} ELSE {})
       \cup (IF entering THEN {"reviewedAt", "reviewerId", "reviewer"} ELSE {})
       \cup (IF leaving THEN {"reviewerId", "reviewer"} ELSE {})
       \cup {"updatedAt"}

\* db.issue.update({ where: { id }, data: updateData }) on the row as it is now
writeColumns(row, values, cols) ==
    [f \in DOMAIN row |-> IF f \in cols THEN values[f] ELSE row[f]]

\* findUnique of the current row, the review lock, and the findFirst of the largest
\* number when the project changes
ReadCurrent(c) ==
    \E issueId \in DOMAIN issues, data \in RaceBodies, userId \in RaceActors :
        /\ c \notin DOMAIN inflight
        /\ LET currentIssue == issues[issueId]
               locked == typeOf(currentIssue.workflowStateId) = "review"
                         /\ disallowedFields(data) # {}
               call == [pc |-> IF locked THEN "failed" ELSE "read",
                        issueId |-> issueId, data |-> data, userId |-> userId,
                        error |-> IF locked THEN LockError ELSE Null,
                        currentIssue |-> currentIssue,
                        data2 |-> normalizeData(issues, currentIssue, data),
                        updateData |-> currentIssue, columns |-> {},
                        typeAtWrite |-> Null]
           IN inflight' = (c :> call) @@ inflight
        /\ UNCHANGED <<issues, activities, projects, now, last, allocated>>

\* the labelIds and assigneeIds blocks: deleteMany and createMany on the two tables
WriteRelations(c) ==
    /\ c \in DOMAIN inflight
    /\ inflight[c].pc = "read"
    /\ LET call == inflight[c]
           lErr == labelError(call.currentIssue, projects, call.data)
       IN IF lErr # Null
          THEN /\ inflight' = [inflight EXCEPT ![c].pc = "failed", ![c].error = lErr]
               /\ UNCHANGED <<issues, now>>
          ELSE /\ issues' = [issues EXCEPT ![call.issueId] =
                                writeAssignees(writeLabels(@, call.data), call.data)]
               /\ now' = IF issues' # issues THEN now + 1 ELSE now
               /\ inflight' = [inflight EXCEPT ![c].pc = "related"]
    /\ UNCHANGED <<activities, projects, last, allocated>>

\* the parentId block and the workflowStateId block, which reads the row again
CheckRequest(c) ==
    /\ c \in DOMAIN inflight
    /\ inflight[c].pc = "related"
    /\ LET call == inflight[c]
           row == issues[call.issueId]
           pErr == parentError(issues, call.issueId, call.data)
           wErr == workflowError(row, call.data)
           err == IF pErr # Null THEN pErr ELSE wErr
       IN inflight' =
            IF err # Null
            THEN [inflight EXCEPT ![c].pc = "failed", ![c].error = err]
            ELSE [inflight EXCEPT
                    ![c].pc = "checked",
                    ![c].updateData =
                        applyFields(applyWorkflow(row, call.data2, now), call.data2, now),
                    ![c].columns = updateColumns(row, call.data2)]
    /\ UNCHANGED <<issues, activities, projects, now, last, allocated>>

\* db.issue.update({ where: { id: issueId, teamId }, data: updateData }) and the
\* activity records.  The schema is not part of the sources: with a unique index on
\* the number an update to a number another row holds fails, without one it succeeds.
WriteIssue(c) ==
    /\ c \in DOMAIN inflight
    /\ inflight[c].pc = "checked"
    /\ LET call == inflight[c]
           row == issues[call.issueId]
           updatedIssue == writeColumns(row, call.updateData, call.columns)
           taken == /\ "number" \in call.columns
                    /\ \E i \in DOMAIN issues :
                          i # call.issueId /\ issues[i].number = updatedIssue.number
       IN \E uniqueIndex \in BOOLEAN :
             IF uniqueIndex /\ taken
             THEN /\ inflight' = [inflight EXCEPT
                                    ![c].pc = "failed",
                                    ![c].error = "Unique constraint failed"]
                  /\ UNCHANGED <<issues, activities, now, allocated>>
             ELSE /\ issues' = [issues EXCEPT ![call.issueId] = updatedIssue]
                  /\ activities' = activities \o
                        updateActivities(call.currentIssue, updatedIssue, call.issueId,
                                         call.data, call.userId)
                  /\ now' = now + 1
                  /\ allocated' = allocated \o newNumbers(issues, issues')
                  /\ inflight' = [inflight EXCEPT
                                    ![c].pc = "done",
                                    ![c].typeAtWrite = typeOf(row.workflowStateId)]
    /\ UNCHANGED <<projects, last>>

NextRace ==
    \E c \in Writers :
        ReadCurrent(c) \/ WriteRelations(c) \/ CheckRequest(c) \/ WriteIssue(c)

SpecRace == InitRace /\ [][NextRace]_vars

----------------------------------------------------------------------------
(* duplicateProjectAction when its transaction does not commit *)

TimeoutError == "Transaction already closed: the timeout for this transaction was 30000 ms"

\* createProjectLib and the createLabel loop run before db.$transaction opens, on the
\* plain client; the transaction holds only the issue and activity rows.  When it
\* throws or runs past its timeout it rolls those rows back and the catch block
\* answers { success: false }: nothing removes the project or its labels.
DuplicateInterrupted ==
    \E userId \in Creators, projectId \in projects :
        /\ Ready
        /\ verifyTeamMembership(userId)
        /\ \E k \in 1..Len(ProjectIds) : ProjectIds[k] \notin projects
        /\ projects' = projects \cup {newProjectId(projects)}
        /\ now' = now + 1
        /\ last' = [Idle EXCEPT !.op = "duplicate", !.userId = userId, !.at = now,
                                !.ok = FALSE, !.error = TimeoutError,
                                !.pre = issues, !.preActivities = activities]
        /\ UNCHANGED <<issues, activities, allocated, inflight>>

NextDuplicate == CreateIssue \/ DuplicateProject \/ DuplicateInterrupted \/ Respond

SpecDuplicate == Init /\ [][NextDuplicate]_vars

----------------------------------------------------------------------------
(* updateIssue under the teamId of another team *)

\* Every issue of the store belongs to the team of Users.  A second team has no
\* issues; x is its only member.  PATCH /api/teams/<second team>/issues/<issueId>
\* passes verifyTeamMembership for x and calls updateIssue with that teamId.
OtherTeamMembers == <<"x">>

isMemberOfOther(u) == u \in RangeOf(OtherTeamMembers)

\* updateIssue(teamId, issueId, ...) where teamId is the second team.  The first read
\* is findUnique({ where: { id: issueId } }) and the two deleteMany calls filter on
\* issueId alone; teamId enters in the teamMember lookups, in the lookup of the
\* parent, and in the where of the final update, which then matches no row.
updateIssueAcross(iss, acts, projs, issueId, data, user, t) ==
    IF issueId \notin DOMAIN iss THEN Fail("Issue not found", iss, acts)
    ELSE
    LET currentIssue == iss[issueId]
        locked == typeOf(currentIssue.workflowStateId) = "review"
                  /\ disallowedFields(data) # {}
        lErr == labelError(currentIssue, projs, data)
        teamMembers == IF Has(data.assigneeIds)
                       THEN SelectSeq(OtherTeamMembers,
                                      LAMBDA u : u \in RangeOf(Val(data.assigneeIds)))
                       ELSE <<>>
        relabelled == writeLabels(currentIssue, data)
        written == IF Has(data.assigneeIds)
                   THEN [relabelled EXCEPT !.assignees = teamMembers]
                   ELSE relabelled
        iss2 == [iss EXCEPT ![issueId] = written]
        pErr == IF Has(data.parentId) /\ Val(data.parentId) # NoIssue
                THEN "Parent issue not found" ELSE Null
        curType == typeOf(written.workflowStateId)
        newType == IF Has(data.workflowStateId) THEN typeOf(Val(data.workflowStateId))
                   ELSE curType
        wErr == IF ~Has(data.workflowStateId) THEN Null
                ELSE IF newType = "completed" /\ curType # "review"
                  THEN "Cannot move to Done from any stage except Review. Please move the issue to Review first."
                ELSE IF newType = "review" /\ curType # "review"
                  THEN IF ~Given(data.reviewerId)
                         THEN "Please select a reviewer before moving to Review stage."
                       ELSE IF ~isMemberOfOther(Val(data.reviewerId))
                         THEN "Selected reviewer is not a member of this team."
                       ELSE Null
                ELSE Null
    IN IF locked THEN Fail(LockError, iss, acts)
       ELSE IF lErr # Null THEN Fail(lErr, iss, acts)
       ELSE IF pErr # Null THEN Fail(pErr, iss2, acts)
       ELSE IF wErr # Null THEN Fail(wErr, iss2, acts)
       ELSE Fail("Record to update not found.", iss2, acts)

\* the PATCH route under the second team's URL
issuePATCHAcross(iss, acts, projs, issueId, userId, body, t) ==
    IF ~isMemberOfOther(userId)
    THEN Response(500, Fail("Failed to update issue", iss, acts))
    ELSE Response(500, updateIssueAcross(iss, acts, projs, issueId, body, Some(userId), t))

AcrossActors == {"x", "d1"}

AcrossBodies ==
    {[NoData EXCEPT !.title = Some("T2")],
     [NoData EXCEPT !.assigneeIds = Some(<<"d2">>)],
     [NoData EXCEPT !.assigneeIds = Some(<<"x">>)],
     [NoData EXCEPT !.labelIds = Some(<<>>)],
     [NoData EXCEPT !.labelIds = Some(<<"l1">>)],
     [NoData EXCEPT !.parentId = Some(1)],
     [NoData EXCEPT !.workflowStateId = Some("ws_todo")],
     [NoData EXCEPT !.workflowStateId = Some("ws_review"), !.reviewerId = Some("x")]}

PatchAcross ==
    \E userId \in AcrossActors, issueId \in DOMAIN issues, data \in AcrossBodies :
        /\ Ready
        /\ LET r == issuePATCHAcross(issues, activities, projects, issueId, userId, data,
                                     now)
           IN /\ Commit(r)
              /\ last' = [Idle EXCEPT !.op = "patchAcross", !.userId = userId,
                                      !.data = data, !.at = now, !.issueId = issueId,
                                      !.ok = r.ok, !.status = r.status, !.error = r.error,
                                      !.pre = issues, !.preActivities = activities]
        /\ UNCHANGED projects

NextTeams == CreateIssue \/ PatchAcross \/ Respond

SpecTeams == Init /\ [][NextTeams]_vars

----------------------------------------------------------------------------
(* Rework: an issue that enters Review, is sent back and enters Review again *)

\* time for a creation, two entries into Review and a decision between them
ReworkTime == MaxTime + 2

ReworkCreateBodies == {b \in LockCreateBodies : b.workflowStateId = Some("ws_progress")}

ReworkBodies ==
    {[NoData EXCEPT !.workflowStateId = Some("ws_review"), !.reviewerId = Some("d2")],
     [NoData EXCEPT !.workflowStateId = Some("ws_progress")],
     [NoData EXCEPT !.title = Some("T2")],
     [NoData EXCEPT !.reviewerId = Some("d1"), !.reviewer = Some("Dora")]}

ReworkDecisions ==
    {[NoBody EXCEPT !.action = "approve"],
     [NoBody EXCEPT !.action = "send_back", !.reason = Some(GoodReason)],
     [NoBody EXCEPT !.action = "reassign", !.reviewerId = Some("d1")]}

ReworkActors == {"d2"}

CreateForRework == CreateUpTo(ReworkCreateBodies, MaxIssues, ReworkTime)

PatchRework == PatchBy(ReworkActors, ReworkBodies, ReworkTime)

DecideRework == DecideBy(ReworkActors, ReworkDecisions, ReworkTime)

NextRework == CreateForRework \/ PatchRework \/ DecideRework \/ Respond

SpecRework == Init /\ [][NextRework]_vars

----------------------------------------------------------------------------
(* The parent-cycle check of updateIssue, one lookup at a time *)

\* Set-parent requests that overlap.  Each db.issue.findFirst of the ancestor walk and
\* each db.issue.findMany of checkDescendants is an awaited query of its own, and the
\* queries and the final update of other requests run between them.
WalkCalls == 1..TreeSize

\* the frames of checkDescendants the model keeps
MaxDepth == TreeSize + 1

InitWalk ==
    /\ issues = seeded(TreeSize).issues
    /\ activities = seeded(TreeSize).activities
    /\ projects = RaceProjects
    /\ now = 2
    /\ last = Idle
    /\ allocated = [k \in 1..TreeSize |-> k]
    /\ inflight = <<>>

\* db.issue.findMany({ where: { parentId: id, teamId }, select: { id } }), in id order
children(iss, id) == idsInOrder({c \in DOMAIN iss : iss[c].parentId = id}, 1)

\* the read of the current row, the review lock, the lookup of the proposed parent and
\* the test that it is not the issue itself; call ids are given out in order
StartWalk(c) ==
    \E issueId \in DOMAIN issues, parentId \in DOMAIN issues :
        /\ c \notin DOMAIN inflight
        /\ c = 1 \/ (c - 1) \in DOMAIN inflight
        /\ LET data == [NoData EXCEPT !.parentId = Some(parentId)]
               locked == typeOf(issues[issueId].workflowStateId) = "review"
                         /\ disallowedFields(data) # {}
               parentIssue == issues[parentId]
               err == IF locked THEN LockError
                      ELSE IF parentIssue.id = issueId
                        THEN "An issue cannot be its own parent"
                      ELSE Null
               call == [pc |-> IF err # Null THEN "failed" ELSE "ancestors",
                        issueId |-> issueId, data |-> data, error |-> err,
                        currentIssue |-> issues[issueId],
                        currentParentId |-> parentIssue.parentId,
                        visited |-> {issueId}, stack |-> <<>>]
           IN inflight' = (c :> call) @@ inflight
        /\ UNCHANGED <<issues, activities, projects, now, last, allocated>>

\* one turn of the while loop over the ancestors of the proposed parent; when the loop
\* ends, the first findMany of checkDescendants(issueId)
AncestorStep(c) ==
    /\ c \in DOMAIN inflight
    /\ inflight[c].pc = "ancestors"
    /\ LET call == inflight[c]
           cur == call.currentParentId
           kids == children(issues, call.issueId)
       IN inflight' =
            IF cur = NoIssue
              THEN [inflight EXCEPT
                      ![c].pc = IF kids = <<>> THEN "checked" ELSE "descendants",
                      ![c].stack = IF kids = <<>> THEN <<>> ELSE <<kids>>]
            ELSE IF cur \in call.visited
              THEN [inflight EXCEPT
                      ![c].pc = "failed",
                      ![c].error = "Circular reference detected: cannot set parent"]
            ELSE [inflight EXCEPT
                    ![c].visited = @ \cup {cur},
                    ![c].currentParentId = issues[cur].parentId]
    /\ UNCHANGED <<issues, activities, projects, now, last, allocated>>

\* one turn of the for loop of checkDescendants: the test of the next child and the
\* findMany of the recursive call on it.  stack holds, innermost first, the children
\* each open call has still to visit; a call with no child left returns what its last
\* recursive call returns, so its frame is not kept.
DescendantStep(c) ==
    /\ c \in DOMAIN inflight
    /\ inflight[c].pc = "descendants"
    /\ LET call == inflight[c]
           top == Head(call.stack)
           child == Head(top)
           rest == IF Len(top) > 1 THEN <<Tail(top)>> \o Tail(call.stack)
                   ELSE Tail(call.stack)
           kids == children(issues, child)
           stack2 == IF kids = <<>> THEN rest ELSE <<kids>> \o rest
       IN IF child = Val(call.data.parentId)
          THEN inflight' = [inflight EXCEPT
                  ![c].pc = "failed",
                  ![c].error = "Circular reference detected: parent issue is a descendant of this issue"]
          ELSE /\ Len(stack2) <= MaxDepth
               /\ inflight' = [inflight EXCEPT
                     ![c].pc = IF stack2 = <<>> THEN "checked" ELSE "descendants",
                     ![c].stack = stack2]
    /\ UNCHANGED <<issues, activities, projects, now, last, allocated>>

\* db.issue.update({ where: { id: issueId, teamId }, data: { parentId } })
WriteParent(c) ==
    /\ c \in DOMAIN inflight
    /\ inflight[c].pc = "checked"
    /\ LET call == inflight[c]
           row == issues[call.issueId]
           updatedIssue == writeColumns(row, applyFields(row, call.data, now),
                                        updateColumns(row, call.data))
       IN /\ issues' = [issues EXCEPT ![call.issueId] = updatedIssue]
          /\ activities' = activities \o
                updateActivities(call.currentIssue, updatedIssue, call.issueId,
                                 call.data, "d1")
          /\ now' = now + 1
          /\ inflight' = [inflight EXCEPT ![c].pc = "done"]
    /\ UNCHANGED <<projects, last, allocated>>

\* the queries of a request that has been received
Proceed(c) == AncestorStep(c) \/ DescendantStep(c) \/ WriteParent(c)

NextWalk == \E c \in WalkCalls : StartWalk(c) \/ Proceed(c)

\* the database answers every query, and the event loop resumes every request whose
\* query has been answered
SpecWalk == InitWalk /\ [][NextWalk]_vars /\ \A c \in WalkCalls : WF_vars(Proceed(c))

----------------------------------------------------------------------------
(* Properties *)

\* the request just answered was about an existing issue; its row before the request
onIssue == last.issueId \in DOMAIN last.pre
preRow == last.pre[last.issueId]
postRow == issues[last.issueId]
preType == typeOf(preRow.workflowStateId)

supplied(data) == {f \in DataFields : Has(data[f])}

\* the actor may decide reviews of the issue: owner, admin or its recorded reviewer
authorized(userId, row) ==
    roleOf(userId) \in {"owner", "admin"} \/ (userId # Null /\ userId = row.reviewerId)

\* the last request asked for a stage of type completed
asksCompleted ==
    \/ /\ last.op = "patch"
       /\ Has(last.data.workflowStateId)
       /\ typeOf(Val(last.data.workflowStateId)) = "completed"
    \/ /\ last.op = "review"
       /\ \/ last.body.action = "approve"
          \/ /\ last.body.action = "send_back"
             /\ Given(last.body.targetStateId)
             /\ typeOf(Val(last.body.targetStateId)) = "completed"

\* C1: a request (updateIssue or review decision) whose target stage is of type
\* completed is accepted only when the issue is in a review-type stage; from any other
\* type it is rejected with an error and the stage is unchanged.  No step takes an
\* issue into a completed-type stage from a stage that is not of type review.
C1_DoneOnlyFromReview ==
    /\ \A i \in DOMAIN last.pre :
          (typeOf(issues[i].workflowStateId) = "completed"
           /\ issues[i].workflowStateId # last.pre[i].workflowStateId)
          => typeOf(last.pre[i].workflowStateId) = "review"
    /\ (onIssue /\ asksCompleted /\ preType # "review")
          => (~last.ok /\ last.error # Null
              /\ postRow.workflowStateId = preRow.workflowStateId)
    /\ (onIssue /\ asksCompleted /\ last.ok) => preType = "review"

C1_Witness ==
    /\ onIssue /\ last.op = "patch" /\ asksCompleted
    /\ isMember(last.userId)
    /\ preType = "started"
    /\ ~last.ok
    /\ typeOf(postRow.workflowStateId) = "started"

ProtectedFields == {"title", "description", "priority", "assigneeIds", "labelIds",
                    "dueDate", "difficulty", "parentId"}

entersReview ==
    /\ last.op = "patch" /\ onIssue
    /\ Has(last.data.workflowStateId)
    /\ typeOf(Val(last.data.workflowStateId)) = "review"
    /\ preType # "review"

\* C3: a move into Review naming a reviewer who is one of the issue's current
\* assignees is rejected.
C3_NoSelfReview ==
    (entersReview /\ Given(last.data.reviewerId)
     /\ Val(last.data.reviewerId) \in RangeOf(preRow.assignees))
    => ~last.ok

reviewFieldsUnchanged ==
    /\ postRow.workflowStateId = preRow.workflowStateId
    /\ postRow.reviewedAt = preRow.reviewedAt
    /\ postRow.reviewerId = preRow.reviewerId
    /\ postRow.reviewer = preRow.reviewer

namesMember == Given(last.data.reviewerId) /\ isMember(Val(last.data.reviewerId))

decidesReview ==
    /\ onIssue /\ preType = "review"
    /\ \/ last.op = "review"
       \/ /\ last.op = "patch"
          /\ (Has(last.data.workflowStateId) \/ Has(last.data.reviewerId))

\* C5: a review decision on an issue in Review is accepted only from an owner, an admin
\* or the issue's recorded reviewer; from anyone else it is rejected and the issue is
\* unchanged.
C5_DecisionAuthorized ==
    decidesReview
    => /\ last.ok => authorized(last.userId, preRow)
       /\ ~authorized(last.userId, preRow) => (~last.ok /\ issues = last.pre)

lastActivity == activities[Len(activities)]

\* C6: after an accepted reassign naming member R, reviewerId/reviewer are R's id and
\* name, the stage is the same review stage, and a reassigned activity carrying R's
\* name has been appended.
C6_ReassignSetsReviewer ==
    (last.op = "review" /\ onIssue /\ last.body.action = "reassign" /\ last.ok)
    => /\ postRow.reviewerId = Val(last.body.reviewerId)
       /\ postRow.reviewer = userNameOf(Val(last.body.reviewerId))
       /\ postRow.workflowStateId = preRow.workflowStateId
       /\ typeOf(postRow.workflowStateId) = "review"
       /\ Len(activities) = Len(last.preActivities) + 1
       /\ lastActivity.action = "reassigned"
       /\ lastActivity.newValue = userNameOf(Val(last.body.reviewerId))

\* C7: for every issue, completedAt is non-null exactly when its stage is of type
\* completed.
C7_CompletedAtIffCompleted ==
    \A i \in DOMAIN issues :
        (issues[i].completedAt # NoTime) <=> (typeOf(issues[i].workflowStateId) = "completed")

\* C8: for every issue, reviewerId and reviewer are non-null exactly when its stage is
\* of type review.
C8_ReviewerIffReview ==
    \A i \in DOMAIN issues :
        /\ (issues[i].reviewerId # Null) <=> (typeOf(issues[i].workflowStateId) = "review")
        /\ (issues[i].reviewer # Null) <=> (typeOf(issues[i].workflowStateId) = "review")

\* C9: every issue in a completed-type stage has been in Review: its reviewedAt is
\* non-null.
C9_DoneWasReviewed ==
    \A i \in DOMAIN issues :
        typeOf(issues[i].workflowStateId) = "completed" => issues[i].reviewedAt # NoTime

\* the last request was a send_back decision by an authorized actor on an issue in
\* Review
sendsBack ==
    /\ last.op = "review" /\ onIssue /\ last.body.action = "send_back"
    /\ preType = "review"
    /\ authorized(last.userId, preRow)

reasonTooShort == ~Has(last.body.reason) \/ Len(trim(Val(last.body.reason))) < 10

\* C10: a send_back whose reason is absent or, once trimmed, shorter than 10 characters
\* is rejected, the issue stays in Review and no activity is recorded; with a reason of
\* at least 10 characters it is accepted and a sent_back activity holding that reason
\* is appended.
C10_SendBackReason ==
    sendsBack
    => /\ reasonTooShort
            => (~last.ok /\ issues = last.pre /\ activities = last.preActivities)
       /\ ~reasonTooShort
            => /\ last.ok
               /\ Len(activities) > Len(last.preActivities)
               /\ lastActivity.action = "sent_back"
               /\ lastActivity.issueId = last.issueId
               /\ lastActivity.userId = last.userId
               /\ lastActivity.metadata.reason = last.body.reason

C10_Witness ==
    /\ sendsBack /\ last.ok
    /\ last.userId = preRow.reviewerId
    /\ last.body.reason = Some(PaddedGoodReason)
    /\ lastActivity.action = "sent_back"
    /\ lastActivity.metadata.reason = Some(PaddedGoodReason)
    /\ typeOf(postRow.workflowStateId) = "started"

\* the activities the last request appended
newActivities == {k \in (Len(last.preActivities) + 1)..Len(activities) : TRUE}

\* C11: whenever a request (review decision or updateIssue) takes an issue from a
\* review-type stage to an unstarted- or started-type stage, a sent_back activity
\* carrying a reason of at least 10 characters is recorded for that change.
C11_SentBackRecorded ==
    (last.op \in {"patch", "review"} /\ onIssue /\ preType = "review"
     /\ typeOf(postRow.workflowStateId) \in {"unstarted", "started"})
    => \E k \in newActivities :
          /\ activities[k].action = "sent_back"
          /\ activities[k].issueId = last.issueId
          /\ Has(activities[k].metadata.reason)
          /\ Len(trim(Val(activities[k].metadata.reason))) >= 10

\* C12: an accepted approve decision moves the issue to a completed-type stage, sets
\* completedAt to the current time, clears reviewerId/reviewer and appends exactly one
\* approved activity to the issue's log.
C12_ApproveOnce ==
    (last.op = "review" /\ onIssue /\ last.body.action = "approve" /\ last.ok)
    => /\ typeOf(postRow.workflowStateId) = "completed"
       /\ postRow.completedAt = last.at
       /\ postRow.reviewerId = Null
       /\ postRow.reviewer = Null
       /\ Cardinality({k \in newActivities :
                          /\ activities[k].action = "approved"
                          /\ activities[k].issueId = last.issueId}) = 1

\* every concurrent createIssue call has returned
allReturned ==
    /\ DOMAIN inflight = Calls
    /\ \A c \in Calls : inflight[c].pc \in {"done", "failed"}

\* C13: N concurrent createIssue calls, under every interleaving of their
\* read-maximum and insert steps, produce N issues with N pairwise distinct numbers.
C13_DistinctNumbers ==
    /\ \A i, j \in DOMAIN issues : i # j => issues[i].number # issues[j].number
    /\ allReturned => Cardinality(DOMAIN issues) = Cardinality(Calls)

\* C14: the number given to a newly created issue is strictly greater than every
\* number allocated before it for the team, including numbers of issues that have
\* since been deleted or renumbered.
C14_NumbersIncrease ==
    \A j, k \in 1..Len(allocated) : j < k => allocated[j] < allocated[k]

\* C16: deleteIssue (single or bulk) requested by a developer or by a non-member is
\* rejected with an authorization error and deletes nothing; requested by an owner or
\* an admin it deletes the issues named.
C16_DeleteNeedsRole ==
    last.op \in {"delete", "deleteMany"}
    => IF roleOf(last.userId) \in {"owner", "admin"}
       THEN (last.ids # {} /\ last.ids \subseteq DOMAIN last.pre)
            => /\ last.ok
               /\ DOMAIN issues = DOMAIN last.pre \ last.ids
               /\ \A i \in DOMAIN issues : issues[i] = last.pre[i]
       ELSE /\ ~last.ok
            /\ last.error \in {NotMemberError, RoleError}
            /\ last.op = "delete" => last.status = 403
            /\ issues = last.pre
            /\ activities = last.preActivities

C16_Witness ==
    /\ last.op = "delete"
    /\ last.userId = "d1"
    /\ last.issueId \in DOMAIN last.pre
    /\ ~last.ok /\ last.status = 403 /\ last.error = RoleError
    /\ last.issueId \in DOMAIN issues

\* the issues met by following parentId from id for at most n steps
RECURSIVE climb(_, _, _)
climb(iss, id, n) ==
    IF n = 0 \/ id = NoIssue \/ id \notin DOMAIN iss THEN {}
    ELSE {id} \cup climb(iss, iss[id].parentId, n - 1)

\* the last request asked to put an issue under itself or under one of its descendants
asksCycle ==
    /\ last.op = "patch" /\ onIssue
    /\ Has(last.data.parentId)
    /\ Val(last.data.parentId) \in DOMAIN last.pre
    /\ last.issueId \in climb(last.pre, Val(last.data.parentId), Cardinality(DOMAIN last.pre))

\* C15: the parent relation never contains a cycle; a request making an issue its own
\* parent, or putting A under B when A is an ancestor of B, is rejected with an error
\* and A's parentId is unchanged.
C15_NoParentCycle ==
    /\ \A i \in DOMAIN issues :
          i \notin climb(issues, issues[i].parentId, Cardinality(DOMAIN issues))
    /\ asksCycle => (~last.ok /\ last.error # Null
                     /\ postRow.parentId = preRow.parentId)

C15_Witness ==
    /\ asksCycle
    /\ Val(last.data.parentId) # last.issueId
    /\ last.pre[Val(last.data.parentId)].parentId = last.issueId
    /\ ~last.ok
    /\ postRow.parentId = NoIssue

\* the last request was an answered summary; its filters
summarized == last.op = "summary" /\ last.ok

\* the rows of the answer that belong to user u
rowsOf(u) == {k \in 1..Len(last.rows) : last.rows[k].userId = u}

\* the users an issue is assigned to: its assignee list, or its single assignee
assignedTo(row) ==
    IF Len(row.assignees) > 0 THEN RangeOf(row.assignees)
    ELSE IF row.assigneeId # Null THEN {row.assigneeId} ELSE {}

\* the closed issues of the team (and of the project asked for) assigned to u
closedBy(u) ==
    {i \in DOMAIN issues :
        /\ typeOf(issues[i].workflowStateId) = "completed"
        /\ last.query.projectId # Null => issues[i].projectId = last.query.projectId
        /\ u \in assignedTo(issues[i])}

deliveredAt(row) ==
    IF row.reviewedAt # NoTime THEN row.reviewedAt
    ELSE IF row.completedAt # NoTime THEN row.completedAt
    ELSE row.updatedAt

C18_OnePerAssignee ==
    (summarized /\ last.query.userId = Null)
    => \A u \in Users :
          LET c == closedBy(u)
          IN /\ Cardinality(rowsOf(u)) = IF c = {} THEN 0 ELSE 1
             /\ \A k \in rowsOf(u) :
                   /\ last.rows[k].totalClosed = Cardinality(c)
                   /\ last.rows[k].sClosed = Cardinality({i \in c : issues[i].difficulty = "S"})
                   /\ last.rows[k].mClosed = Cardinality({i \in c : issues[i].difficulty = "M"})
                   /\ last.rows[k].lClosed = Cardinality({i \in c : issues[i].difficulty = "L"})

C18_Witness ==
    /\ summarized /\ last.query.userId = Null
    /\ DOMAIN issues = {1}
    /\ issues[1].assignees = <<"d1", "d2">>
    /\ issues[1].difficulty = "S"
    /\ issues[1].reviewedAt = NoTime
    /\ Len(last.rows) = 2
    /\ \A k \in 1..2 : last.rows[k].sClosed = 1 /\ last.rows[k].totalClosed = 1

\* C19: when the summary is asked for one user, the answer contains no row for any
\* other user, co-assignees of that user's issues included.
C19_OnlySelectedUser ==
    (summarized /\ last.query.userId # Null)
    => \A k \in 1..Len(last.rows) : last.rows[k].userId = last.query.userId

\* the store with reviewer r recorded on every issue
withReviewer(iss, r) ==
    [i \in DOMAIN iss |->
        [iss[i] EXCEPT !.reviewerId = r,
                       !.reviewer = IF r = Null THEN Null ELSE userNameOf(r)]]

\* C20: closure credit never goes to the reviewer: the summary is the same whatever
\* reviewerId/reviewer the issues hold, and every row belongs to an assignee of a
\* closed issue.
C20_NoReviewerCredit ==
    summarized
    => /\ \A r \in Users \cup {Null} :
             getClosureSummary(withReviewer(issues, r), last.query.projectId,
                               last.query.userId) = last.rows
       /\ \A k \in 1..Len(last.rows) : closedBy(last.rows[k].userId) # {}

C20_Witness ==
    /\ summarized /\ last.query.userId = Null
    /\ \E i, j \in DOMAIN issues :
          /\ issues[i].workflowStateId = "ws_review" /\ issues[i].reviewerId = "d2"
          /\ issues[j].workflowStateId = "ws_done" /\ issues[j].assignees = <<"d1">>
    /\ rowsOf("d2") = {}
    /\ rowsOf("d1") # {}

\* the difficulty tiers
Tiers == {"S", "M", "L"}

C22_TotalIsTierSum ==
    summarized
    => \A k \in 1..Len(last.rows) :
          last.rows[k].totalClosed
            = last.rows[k].sClosed + last.rows[k].mClosed + last.rows[k].lClosed

\* the columns whose changes the activity log is to record
LoggedColumns == {"title", "description", "priority", "dueDate", "difficulty", "labels",
                  "parentId", "projectId", "workflowStateId", "assignees", "reviewerId"}

\* the last request was accepted and changed one of those columns of its issue, or
\* created the issue
mutated ==
    /\ last.op \in {"create", "patch", "review"}
    /\ last.ok
    /\ last.issueId \in DOMAIN issues
    /\ onIssue => \E f \in LoggedColumns : postRow[f] # preRow[f]

\* C23: every accepted mutation of an issue (creation, an edit of title, description,
\* priority, due date, difficulty, labels, parent or project, a stage transition, an
\* assignment change, a review decision) appends at least one activity of that issue
\* attributed to the acting user.
C23_MutationLogged ==
    mutated
    => \E k \in newActivities :
          /\ activities[k].issueId = last.issueId
          /\ activities[k].userId = last.userId

\* C24: updateIssue appends no field-update, status-change or assignment activity for
\* a field whose new value equals its old value: every activity it records has an
\* oldValue different from its newValue.
C24_NoSameValueActivity ==
    (last.op = "patch" /\ last.ok)
    => \A k \in newActivities : activities[k].oldValue # activities[k].newValue

C26_PagesCoverLog ==
    (last.op = "activity" /\ last.ok)
    => LET p == last.page
       IN /\ Len(p.items) <= p.limit
          /\ \A j, k \in DOMAIN p.items :
                j < k => p.items[j].createdAt >= p.items[k].createdAt
          /\ \A k \in DOMAIN p.items : p.items[k].issueId = last.issueId
          /\ p.hasMore <=> p.nextCursor # NoCursor
          /\ \A j, k \in DOMAIN p.seen : j # k => p.seen[j] # p.seen[k]
          /\ ~p.hasMore
               => RangeOf(p.seen) = {a.id : a \in logOf(activities, last.issueId)}

\* the mandatory-field rules a create request violates
violatedRules(body) ==
    {r \in {"title", "stage", "assignee", "dueDate", "label", "difficulty"} :
        CASE r = "title" -> ~Has(body.title) \/ Val(body.title) \in {Null, "", " "}
          [] r = "stage" -> ~Has(body.workflowStateId)
                            \/ Val(body.workflowStateId) \in {Null, "", " "}
          [] r = "assignee" ->
                ({u \in Users : Has(body.assigneeIds) /\ u \in RangeOf(Val(body.assigneeIds))}
                 \cup {u \in Users : ~Has(body.assigneeIds) /\ body.assigneeId = Some(u)}) = {}
          [] r = "dueDate" -> ~Has(body.dueDate) \/ Val(body.dueDate) \in {Null, "", " "}
          [] r = "label" -> ~Has(body.labelIds) \/ Val(body.labelIds) = <<>>
          [] r = "difficulty" -> body.difficulty \notin {Some("S"), Some("M"), Some("L")}}

ruleMessage(r) ==
    CASE r = "title" -> "Title is required"
      [] r = "stage" -> "Stage is required"
      [] r = "assignee" -> "At least one assignee is required"
      [] r = "dueDate" -> "Due date is required"
      [] r = "label" -> "At least one tag is required"
      [] r = "difficulty" -> "Estimated size (S/M/L) is required"

\* C27: a create request through the POST route that violates one or more of the
\* mandatory-field rules (title, stage, at least one assignee, due date, at least one
\* label, difficulty S/M/L) is rejected with an error list holding one entry for every
\* violated rule, and no issue is created and no number is allocated.
C27_AllViolationsListed ==
    (last.op = "post" /\ violatedRules(last.data) # {})
    => /\ ~last.ok
       /\ last.status = 400
       /\ Len(last.errors) = Cardinality(violatedRules(last.data))
       /\ RangeOf(last.errors) = {ruleMessage(r) : r \in violatedRules(last.data)}
       /\ issues = last.pre
       /\ activities = last.preActivities
       /\ Len(allocated) = Cardinality(DOMAIN last.pre)

C27_Witness ==
    /\ last.op = "post"
    /\ violatedRules(last.data) = {"title", "dueDate", "difficulty"}
    /\ last.status = 400
    /\ last.errors = <<"Title is required", "Due date is required",
                       "Estimated size (S/M/L) is required">>
    /\ Cardinality(DOMAIN last.pre) = 1
    /\ issues = last.pre

\* C28: after every accepted createIssue or updateIssue, the legacy single-assignee
\* field mirrors the assignee set of the issue: null when the set is empty, otherwise
\* the id and the name of the first entry of the stored set.
C28_LegacyAssigneeMirrors ==
    (last.op \in {"create", "patch"} /\ last.ok /\ last.issueId \in DOMAIN issues)
    => IF Len(postRow.assignees) = 0
       THEN postRow.assigneeId = Null /\ postRow.assignee = Null
       ELSE /\ postRow.assigneeId = postRow.assignees[1]
            /\ postRow.assignee = userNameOf(postRow.assignees[1])

\* C29: after any sequence of accepted createIssue and updateIssue operations, changes
\* of project included, every label attached to an issue belongs to the issue's
\* current project, and an issue without a project holds no labels.
C29_LabelsOfOwnProject ==
    (last.op \in {"create", "patch"} /\ last.ok)
    => \A i \in DOMAIN issues :
          /\ \A l \in issues[i].labels : LabelProject[l] = issues[i].projectId
          /\ issues[i].projectId = Null => issues[i].labels = {}

\* C30: when an updateIssue request is rejected, for whatever reason (review lock,
\* illegal transition to Done, missing or invalid reviewer, invalid parent, invalid
\* labels), the fields, the label set and the assignee set of the issue and the
\* activity log are exactly as they were before the request.
C30_RejectedLeavesNoTrace ==
    (last.op = "patch" /\ ~last.ok)
    => /\ issues = last.pre
       /\ activities = last.preActivities

\* C31: with concurrent requests on the same issue, a field edit is never written to
\* an issue whose stage type is review at the moment of the write: when the issue
\* enters Review between an edit's lock check and its write, the edit is not applied.
C31_NoEditWrittenInReview ==
    \A c \in DOMAIN inflight :
        (inflight[c].pc = "done" /\ disallowedFields(inflight[c].data) # {})
            => inflight[c].typeAtWrite # "review"

\* the calls that asked for a change of project, and have returned
renumberings ==
    {c \in DOMAIN inflight :
        /\ inflight[c].pc \in {"done", "failed"}
        /\ Has(inflight[c].data.projectId)
        /\ Val(inflight[c].data.projectId) # inflight[c].currentIssue.projectId}

\* C33: an updateIssue that changes an issue's project gives the issue a new number,
\* one greater than the largest held in the team, and afterwards no other issue of the
\* team holds that number, also when another renumbering runs concurrently.
C33_RenumberedDistinct ==
    /\ \A i, j \in DOMAIN issues : i # j => issues[i].number # issues[j].number
    /\ \A c \in renumberings :
          /\ inflight[c].pc = "done"
          /\ issues[inflight[c].issueId].number = Val(inflight[c].data2.number)

\* C35: the parent relation stays acyclic under every interleaving of concurrent
\* parent changes: two concurrent requests that set A's parent to B and B's parent to
\* A are never both accepted.
C35_AcyclicUnderRaces ==
    \A i \in DOMAIN issues :
        i \notin climb(issues, issues[i].parentId, Cardinality(DOMAIN issues))

\* C32: when duplicating a project fails or times out, no part of the copy remains:
\* neither the new project, nor its copied labels, nor any copied issue or activity.
C32_FailedCopyLeavesNothing ==
    [][(last'.op = "duplicate" /\ last.op = "none" /\ ~last'.ok)
          => (projects' = projects /\ issues' = issues /\ activities' = activities)]_vars

\* C34: updateIssue called with a teamId to which the issue does not belong fails and
\* changes nothing of that issue: its fields, its label set and its assignee set are
\* all unchanged.
C34_ForeignTeamChangesNothing ==
    (last.op = "patchAcross" /\ onIssue)
        => (~last.ok /\ last.issueId \in DOMAIN issues /\ postRow = preRow)

\* C36: after an accepted send_back decision the issue's stage type is unstarted or
\* started; a send_back whose target stage is of type completed, review, backlog or
\* canceled does not move the issue there, so send_back can never close an issue.
C36_SendBackReopens ==
    (last.op = "review" /\ last.body.action = "send_back" /\ last.ok /\ onIssue)
        => typeOf(postRow.workflowStateId) \in {"unstarted", "started"}

\* C37: reviewedAt changes only when an issue's stage type goes from a non-review type
\* to review, where it is set to the current time; approve, send-back, reviewer
\* reassignment, field edits and moves between other stages leave it unchanged, so
\* after rework it holds the time of the most recent entry into Review.
C37_ReviewedAtOnlyOnEntry ==
    last.op # "none" =>
        \A i \in DOMAIN last.pre \cap DOMAIN issues :
            LET entering == /\ typeOf(last.pre[i].workflowStateId) # "review"
                            /\ typeOf(issues[i].workflowStateId) = "review"
            IN issues[i].reviewedAt = IF entering THEN last.at
                                      ELSE last.pre[i].reviewedAt

\* an issue that was reviewed and sent back has entered Review again
C37_Witness ==
    /\ last.op = "patch" /\ last.ok /\ onIssue
    /\ preType # "review"
    /\ typeOf(postRow.workflowStateId) = "review"
    /\ preRow.reviewedAt # NoTime
    /\ postRow.reviewedAt = last.at
    /\ postRow.reviewedAt > preRow.reviewedAt
    /\ \E k \in 1..Len(activities) :
          activities[k].issueId = last.issueId /\ activities[k].action = "sent_back"

\* C38: the parent-cycle check of updateIssue terminates for every reachable parent
\* relation: the ancestor walk and the recursive descendant walk each finish after
\* finitely many lookups, so every set-parent request is eventually answered.
C38_WalkAnswers ==
    \A c \in WalkCalls :
        (c \in DOMAIN inflight)
            ~> (c \in DOMAIN inflight /\ inflight[c].pc \in {"done", "failed"})

====
